---- MODULE Spec2Model ----
(***************************************************************************)
(* The HTTP request pipeline of the Strapi client: HttpClient.request with *)
(* its two interceptor chains and its timeout timer, the AuthManager, the  *)
(* two auth providers and the auth interceptors the Strapi constructor     *)
(* registers.  A task is one top-level asynchronous call (Strapi.fetch or  *)
(* a direct AuthManager.authenticate); its stack holds the async calls     *)
(* that are suspended on one another.  An action starts where the code     *)
(* reads or writes state shared between calls (the AuthManager, a provider *)
(* token) or where the environment decides (the network, the timer, the    *)
(* body of the handshake response), and runs the call on through the steps *)
(* that touch only its own frame, up to the next such point or until the   *)
(* call settles.                                                           *)
(*                                                                         *)
(* Spec, SpecStrategy and SpecPipeline are the Strapi client under two     *)
(* callers, under a changing strategy, and under application handlers and  *)
(* the timer.  SpecManager is an HttpInterceptorManager called on its own, *)
(* SpecFork a bare HttpClient and the chains of its fork, SpecCreate the   *)
(* configuration of a client and of its fork.  SpecHeaders is a client     *)
(* with static headers and a caller with headers of its own, SpecStatus a  *)
(* server that answers with any status, SpecFactory an application that    *)
(* asks the provider factory for any strategy name.                        *)
(***************************************************************************)
EXTENDS Integers, Sequences, FiniteSets, TLC

\* ---------------------------------------------------------------- bounds
MaxProviders == 2
MaxCustom == 1
MaxDepth == 5

\* ------------------------------------------------------ program constants
OK == 200
CREATED == 201
NO_CONTENT == 204
BAD_REQUEST == 400
UNAUTHORIZED == 401
FORBIDDEN == 403
NOT_FOUND == 404
TIMEOUT == 408
INTERNAL_SERVER_ERROR == 500

\* Two concurrent callers of one client; the pipeline's races are pairwise.
Tasks == {"a", "b"}
Statuses == {OK, UNAUTHORIZED, INTERNAL_SERVER_ERROR}

\* Every status the mapping names, the other successful ones, and statuses
\* outside 2xx that it does not name.
StatusCodes ==
  {OK, CREATED, NO_CONTENT, 304, BAD_REQUEST, UNAUTHORIZED, FORBIDDEN, NOT_FOUND,
   TIMEOUT, 418, INTERNAL_SERVER_ERROR, 504}

API_TOKEN == "api-token"
USERS_PERMISSIONS == "users-permissions"
Strategies == {API_TOKEN, USERS_PERMISSIONS}

NoProvider == 0

VARIABLES
  stack,            \* task -> sequence of suspended async calls (frames)
  isAuthenticated,  \* AuthManager._isAuthenticated
  authProvider,     \* AuthManager._authProvider: NoProvider or an index of providers
  providers,        \* every provider object created so far: [name, token]
  reqHandlers,      \* _handlers of the Strapi client's interceptors.request
  respHandlers,     \* _handlers of the Strapi client's interceptors.response
  last401,          \* a request ended with a 401 and no request was issued since
  authSince401,     \* an authenticate call succeeded since the last notify()
  authedBy,         \* the provider whose authenticate completed last, if any
  config,           \* the client's own _baseURL, _timeout, _headers and class
  fork,             \* what the last create() on the client gave: a client, or a raise
  created,          \* what the last AuthProviderFactory.create gave: a provider, or a raise
  setterThrew,      \* what the last setBaseURL or setTimeout call threw, "none" if it returned
  strapi            \* what new Strapi(config, ...) gave: a client, or a raise

vars == <<stack, isAuthenticated, authProvider, providers, reqHandlers,
          respHandlers, last401, authSince401, authedBy, config, fork, created,
          setterThrew, strapi>>

\* What no step of a request or of an authentication changes: the fields of
\* the HttpClient objects themselves and what the provider factory last gave.
clientVars == <<config, fork, created, setterThrew, strapi>>

\* What a caller may pass in init: nothing, or its own headers and abort signal.
\* Each header holds the values appended under its name, in order: what
\* Headers.get joins with ", ". <<>> is a header that is not there.
NoHeaders == [ctype |-> <<>>, auth |-> <<>>, accept |-> <<>>, signal |-> "none"]

\* ------------------------------------------------------------- payloads
\* tags: the marks left on a value by the handlers that returned it.
\* request: the request a response payload or an HTTP error carries.
Response(s) == [kind |-> "Response", status |-> s, tags |-> <<>>, request |-> NoHeaders]
Error(k, s) == [kind |-> k, status |-> s, tags |-> <<>>, request |-> NoHeaders]
NoValue == [kind |-> "none", status |-> 0, tags |-> <<>>, request |-> NoHeaders]
Recovered == [kind |-> "Recovered", status |-> 0, tags |-> <<>>, request |-> NoHeaders]
Value == [kind |-> "Value", status |-> 0, tags |-> <<>>, request |-> NoHeaders]

\* The payload { request, response } handed to the response interceptors.
WithRequest(v, req) == [v EXCEPT !.request = req]

\* A handler that returns what it is given with its own mark appended.
Tag(v, x) == [v EXCEPT !.tags = Append(@, x)]

ResponseOk(v) == v.kind = "Response" /\ v.status >= 200 /\ v.status <= 299

\* HTTPError(response, request) and its subclasses.
HTTPErrorOf(k, v) == WithRequest(Error(k, v.status), v.request)

\* A mapping that knows the generic error only.
MapResponseToHTTPErrorGeneric(v) == HTTPErrorOf("HTTPError", v)

MapResponseToHTTPError(v) ==
  CASE v.status = BAD_REQUEST -> HTTPErrorOf("HTTPBadRequestError", v)
    [] v.status = UNAUTHORIZED -> HTTPErrorOf("HTTPAuthorizationError", v)
    [] v.status = FORBIDDEN -> HTTPErrorOf("HTTPForbiddenError", v)
    [] v.status = NOT_FOUND -> HTTPErrorOf("HTTPNotFoundError", v)
    [] v.status = TIMEOUT -> HTTPErrorOf("HTTPTimeoutError", v)
    [] v.status = INTERNAL_SERVER_ERROR -> HTTPErrorOf("HTTPInternalServerError", v)
    [] OTHER -> HTTPErrorOf("HTTPError", v)

InitHeaders ==
  {NoHeaders,
   [ctype |-> <<"caller">>, auth |-> <<"caller">>, accept |-> <<"caller">>,
    signal |-> "caller"]}

\* Headers.has, Headers.set and Headers.append on the headers of a request.
HeadersHas(req, name) == req[name] # <<>>
HeadersSet(req, name, value) == [req EXCEPT ![name] = <<value>>]
HeadersAppend(req, name, value) == [req EXCEPT ![name] = Append(@, value)]

\* ------------------------------------------------------ interceptor chains
Entry(f, r) == [ful |-> f, rej |-> r]

\* Strapi.initHttp and Strapi.initAuth register these, in this order.
DefaultRequestHandlers ==
  << Entry("setDefaultHeaders", "none"),
     Entry("ensurePreAuthentication", "none"),
     Entry("authenticateRequests", "none") >>

DefaultResponseHandlers ==
  << Entry("transformErrors", "none"),
     Entry("notifyFulfilled", "notifyRejected") >>

\* Handlers an application may register on top with use().
CustomRequestEntries ==
  {Entry("pass", "none"), Entry("throw", "none"), Entry("signal", "none")}
CustomResponseEntries ==
  {Entry("throw", "none"), Entry("pass", "swap"),
   Entry("throw", "swap"), Entry("none", "throw")}

CustomKinds == {"pass", "throw", "swap"}

\* Entries registered on a manager used on its own: fulfilled and rejected
\* handlers that mark the value, handlers that raise, and missing handlers.
ManagerEntries ==
  {Entry("tag1", "none"), Entry("tag2", "tag1"), Entry("none", "tag2"),
   Entry("throw", "none"), Entry("throw", "tag1"), Entry("none", "throw")}

\* HttpInterceptorManager.clone
Clone(handlers) == [i \in 1..Len(handlers) |-> handlers[i]]

\* The end of the for-of loop over _handlers in execute and reject.
ExecuteDoneEarly(k, handlers) == k >= Len(handlers)
ExecuteDone(k, handlers) == k > Len(handlers)

\* HttpClient.create: the fork's chains.
Create(reqH, respH, inheritInterceptors) ==
  IF inheritInterceptors
    THEN [reqH |-> Clone(reqH), respH |-> Clone(respH)]
    ELSE [reqH |-> <<>>, respH |-> <<>>]

\* ------------------------------------------------------ client configuration
MaxSlashes == 1
DEFAULT_HTTP_TIMEOUT_MS == 10000

\* A property left out of a config object.
Undefined == [undefined |-> TRUE]

\* A string: `lead` slashes, a text that neither starts nor ends with a
\* slash, `trail` slashes.
Url(lead, core, trail) == [lead |-> lead, core |-> core, trail |-> trail]
Parsable == {"https://a.io", "https://b.io", "ftp://b.io"}
Cores == Parsable \cup {"nonsense"}
Urls == {Url(l, c, t) : l \in 0..MaxSlashes, c \in Cores \ {"https://a.io"},
                        t \in 0..MaxSlashes}

\* PathFormatter: path.replace(/\/+$/, '') and path.replace(/^\/+/, '').
\* In a string of slashes only (core "", written with trail = 0) every slash
\* is both leading and trailing.
RemoveTrailingSlashes(path) ==
  IF path.core = "" THEN [path EXCEPT !.lead = 0, !.trail = 0]
  ELSE [path EXCEPT !.trail = 0]
RemoveLeadingSlashes(path) ==
  IF path.core = "" THEN [path EXCEPT !.lead = 0, !.trail = 0]
  ELSE [path EXCEPT !.lead = 0]

\* `${removeTrailingSlashes(path)}/` and `/${removeLeadingSlashes(path)}`
EnsureSingleTrailingSlash(path) ==
  IF path.core = "" THEN [path EXCEPT !.lead = 1, !.trail = 0]
  ELSE [path EXCEPT !.trail = 1]
EnsureSingleLeadingSlash(path) == [RemoveLeadingSlashes(path) EXCEPT !.lead = 1]

\* formatTrailingSlashes and formatLeadingSlashes: 'single', false, and
\* anything else leaves the path; a missing option is the default, false.
DefaultSlashes == "false"
FormatTrailingSlashes(path, slashConfig) ==
  IF slashConfig = "single" THEN EnsureSingleTrailingSlash(path)
  ELSE IF slashConfig = "false" THEN RemoveTrailingSlashes(path)
  ELSE path
FormatLeadingSlashes(path, slashConfig) ==
  IF slashConfig = "single" THEN EnsureSingleLeadingSlash(path)
  ELSE IF slashConfig = "false" THEN RemoveLeadingSlashes(path)
  ELSE path

\* A request that joins the path as it was given.
SafePathAsGiven(path) == path

\* PathFormatter.format(path, { leadingSlashes: 'single' })
SafePath(path) ==
  FormatLeadingSlashes(FormatTrailingSlashes(path, DefaultSlashes), "single")

\* `${baseURL}${safePath}`: the base, the slashes where the two meet, and
\* what follows them.
Join(baseURL, path) ==
  [base |-> baseURL.core, slashes |-> baseURL.trail + path.lead,
   rest |-> path.core, trail |-> path.trail]

\* The paths an application may ask for: p, p/q and the empty path, with
\* slashes before and after.
Paths ==
  {Url(l, c, t) : l \in 0..(MaxSlashes + 2), c \in {"p", "p/q"}, t \in 0..MaxSlashes}
    \cup {Url(l, "", 0) : l \in 0..MaxSlashes}

\* PathFormatter.format(path, { trailingSlashes: false }): the leading slashes
\* follow the default, which removes them too.
Format(path) == RemoveLeadingSlashes(RemoveTrailingSlashes(path))

\* URLValidator.validate(url) returns (TRUE) or throws (FALSE): the string
\* parses as an absolute URL and its protocol is http: or https:.
CanParse(url) == url.lead = 0 /\ url.core \in Parsable
HasValidProtocol(url) == url.core \in {"https://a.io", "https://b.io"}
\* A validator that accepts every protocol.
ValidateParsesOnly(url) == CanParse(url)

Validate(url) == CanParse(url) /\ HasValidProtocol(url)

\* What validate throws, "none" if it returns.
ValidateThrows(url) ==
  IF ~CanParse(url) THEN "URLParsingError"
  ELSE IF ~HasValidProtocol(url) THEN "URLProtocolValidationError"
  ELSE "none"

\* Numbers, as far as Number.isSafeInteger tells them apart: an integer n,
\* NaN, and a number with a fractional part (n and a bit).
Num(n) == [nan |-> FALSE, n |-> n, int |-> TRUE]
NaN == [nan |-> TRUE, n |-> 0, int |-> FALSE]
Fraction(n) == [nan |-> FALSE, n |-> n, int |-> FALSE]

\* A setTimeout that stores whatever is a number.
IsNumber(x) == ~x.nan

IsSafeInteger(x) == ~x.nan /\ x.int
Timeouts == {Num(0), NaN, Fraction(4)}

Headers(names) == [names |-> names]

\* a || b: b also replaces a falsy a.
CoalesceFalsy(a, b) == IF a = Undefined \/ a = Num(0) \/ a = NaN THEN b ELSE a

\* a ?? b
Coalesce(a, b) == IF a = Undefined THEN b ELSE a

\* new HttpClient(cfg, urlValidator) of class cls: the object it initialises
\* and whether the validation at its end throws.
HttpClientConstructor(cfg, cls) ==
  LET baseURL == Format(cfg.baseURL)
  IN [raised |-> ~Validate(baseURL),
      client |-> [cls |-> cls, baseURL |-> baseURL,
                  timeout |-> Coalesce(cfg.timeout, Num(DEFAULT_HTTP_TIMEOUT_MS)),
                  headers |-> Coalesce(cfg.headers, Headers({}))]]

\* HttpClient.create: the constructor call for the fork.
CreateClient(parent, over) ==
  HttpClientConstructor([baseURL |-> Coalesce(over.baseURL, parent.baseURL),
                         timeout |-> Coalesce(over.timeout, parent.timeout),
                         headers |-> Coalesce(over.headers, parent.headers)],
                        parent.cls)

NoOverrides == [baseURL |-> Undefined, timeout |-> Undefined, headers |-> Undefined]
Overrides ==
  [baseURL : {Undefined} \cup Urls, timeout : {Undefined} \cup Timeouts,
   headers : {Undefined, Headers({"Accept"})}]

\* The array behind the manager clone() returns: [...this._handlers] is a new
\* array ("own"), this._handlers itself would be the parent's ("parent").
SharedArray == "parent"
ClonedArray == "own"

\* The client of the other specifications, and no create() call made yet.
DefaultClient ==
  HttpClientConstructor([baseURL |-> Url(0, "https://a.io", 0), timeout |-> Undefined,
                         headers |-> Undefined], "HttpClient").client
NoFork == [made |-> FALSE, raised |-> FALSE]

\* The second argument of http.create in AuthManager.authenticate.
InheritInterceptorsDefault == TRUE
AuthenticateInheritsInterceptors == FALSE

\* The header of a request that holds the values of a header name.
HeaderNames == {"Content-Type", "Authorization", "Accept"}
Field(name) ==
  CASE name = "Content-Type" -> "ctype"
    [] name = "Authorization" -> "auth"
    [] name = "Accept" -> "accept"

\* The loop of HttpClient.request over the static headers, had it used set.
RECURSIVE AttachInstanceHeadersSets(_, _)
AttachInstanceHeadersSets(req, names) ==
  IF names = {} THEN req
  ELSE LET name == CHOOSE n \in names : TRUE
       IN AttachInstanceHeadersSets(HeadersSet(req, Field(name), "static"),
                                    names \ {name})

\* The loop of HttpClient.request over the entries of this._headers, each of
\* value "static": originalRequest.headers.append(key, value).
RECURSIVE AttachInstanceHeaders(_, _)
AttachInstanceHeaders(req, names) ==
  IF names = {} THEN req
  ELSE LET name == CHOOSE n \in names : TRUE
       IN AttachInstanceHeaders(HeadersAppend(req, Field(name), "static"),
                                names \ {name})

\* ---------------------------------------------------------------- frames
BaseFrame ==
  [kind |-> "request", client |-> "main", reqH |-> <<>>, respH |-> <<>>,
   pc |-> "reqExec", idx |-> 1,
   path |-> Undefined, url |-> Undefined,
   init |-> NoHeaders, req |-> NoHeaders, sigIn |-> "none", arg |-> NoValue, val |-> NoValue,
   received |-> 0, body |-> "none", timer |-> "none", arms |-> 0, clears |-> 0, result |-> "pending", log |-> <<>>,
   failed |-> FALSE, err0 |-> NoValue, nRej |-> 0, rejs |-> <<>>,
   notified |-> FALSE, authBefore |-> FALSE, flagAtInject |-> "none",
   authCalled |-> FALSE, okSince |-> FALSE, preflightFailed |-> FALSE,
   raisedBy |-> "none", after401 |-> FALSE,
   prov |-> NoProvider, how |-> "pending"]

RequestFrame(client, chains, init, after) ==
  [BaseFrame EXCEPT !.client = client, !.reqH = chains.reqH,
                    !.respH = chains.respH, !.after401 = after,
                    !.init = init,
                    !.req = AttachInstanceHeaders(init, config.headers.names)]

AuthFrame(p, pc, how) ==
  [BaseFrame EXCEPT !.kind = "authenticate", !.client = "-", !.pc = pc,
                    !.prov = p, !.how = how,
                    !.result = IF pc = "settled" THEN "resolved" ELSE "pending"]

Depth(t) == Len(stack[t])
Top(t) == stack[t][Depth(t)]
Busy(t) == Depth(t) > 0
WithTop(t, f) == [stack EXCEPT ![t] = [@ EXCEPT ![Len(@)] = f]]
Pop(s) == SubSeq(s, 1, Len(s) - 1)

ReqChain(f) == IF f.client = "main" THEN reqHandlers ELSE f.reqH
RespChain(f) == IF f.client = "main" THEN respHandlers ELSE f.respH

AtRequest(t, pc) == Busy(t) /\ Top(t).kind = "request" /\ Top(t).pc = pc
AtAuth(t, pc) == Busy(t) /\ Top(t).kind = "authenticate" /\ Top(t).pc = pc

\* -------------------------------------------------------------- providers
\* The strategies registerDefaultProviders registers, and the names an
\* application may ask for.
Registry == Strategies
StrategyNames == Strategies \cup {"nonexistent"}

\* new StrapiSDKError(...args): (cause = undefined, message = the default).
DefaultSDKMessage ==
  <<"An error occurred in the Strapi SDK. Please check the logs for more information.">>
StrapiSDKError(args) ==
  [kind |-> "StrapiSDKError",
   cause |-> IF Len(args) >= 1 THEN args[1] ELSE <<>>,
   message |-> IF Len(args) >= 2 THEN args[2] ELSE DefaultSDKMessage]

\* The template `Auth strategy "${authStrategy}" is not supported.`
NotSupported(name) == <<"Auth strategy \"", name, "\" is not supported.">>

NoCreate == [asked |-> "none", raised |-> FALSE]

\* AuthProviderFactory.create
FactoryCreate(name) ==
  IF name \notin Registry
    THEN [asked |-> name, raised |-> TRUE,
          error |-> StrapiSDKError(<<NotSupported(name)>>)]
    ELSE [asked |-> name, raised |-> FALSE,
          provider |-> [name |-> name, token |-> "none"]]

\* The provider's options, as far as its preflightValidation tells them
\* apart: a token or credentials it accepts, or not.
AuthOptions == {"valid", "malformed"}

\* A provider constructor that validates nothing.
FactoryCreateAny(name, options) == FactoryCreate(name)

\* AuthProviderFactory.create(strategy, options): the creator calls the
\* provider's constructor, whose preflightValidation throws on options it
\* does not accept.
FactoryCreateWith(name, options) ==
  IF name \in Registry /\ options = "malformed"
    THEN [asked |-> name, raised |-> TRUE,
          error |-> [kind |-> "StrapiSDKValidationError"]]
    ELSE FactoryCreate(name)

\* No Strapi client asked for, and the client new Strapi(...) returns.
NoStrapi == [made |-> FALSE, raised |-> "none", stage |-> "none", http |-> FALSE,
             asked |-> [undefined |-> TRUE], factory |-> "none"]
Built == [made |-> TRUE, raised |-> "none", stage |-> "none", http |-> TRUE,
          asked |-> [undefined |-> TRUE], factory |-> "none"]

\* A credential provider whose headers do not look at the token.
ProviderHeadersAlways(p) ==
  IF providers[p].name = API_TOKEN THEN "Bearer api-token" ELSE "Bearer jwt"

\* AuthProvider.headers: the Authorization value, "none" for {}.
ProviderHeaders(p) ==
  IF providers[p].name = API_TOKEN THEN "Bearer api-token"
  ELSE IF providers[p].token = "none" THEN "none"
  ELSE "Bearer jwt"

\* AuthManager.strategy
Strategy == IF authProvider = NoProvider THEN "undefined"
            ELSE providers[authProvider].name

\* authenticateRequest, had it skipped a manager that is not authenticated.
AuthenticateRequestWhenAuthenticated(req) ==
  IF authProvider = NoProvider \/ ~isAuthenticated THEN req
  ELSE IF ProviderHeaders(authProvider) = "none" THEN req
  ELSE HeadersSet(req, "auth", ProviderHeaders(authProvider))

\* authenticateRequest, had it appended the provider's headers.
AuthenticateRequestAppends(req) ==
  IF authProvider = NoProvider THEN req
  ELSE IF ProviderHeaders(authProvider) = "none" THEN req
  ELSE HeadersAppend(req, "auth", ProviderHeaders(authProvider))

\* AuthManager.authenticateRequest: headers.set for every provider header.
AuthenticateRequest(req) ==
  IF authProvider = NoProvider THEN req
  ELSE IF ProviderHeaders(authProvider) = "none" THEN req
  ELSE HeadersSet(req, "auth", ProviderHeaders(authProvider))

\* setDefaultHeaders, had it set the default without looking.
SetDefaultHeadersAlways(req) == HeadersSet(req, "ctype", "application/json")

\* HttpInterceptors.setDefaultHeaders
SetDefaultHeaders(req) ==
  IF ~HeadersHas(req, "ctype") THEN HeadersSet(req, "ctype", "application/json")
  ELSE req

\* The guard of AuthInterceptors.ensurePreAuthentication.
ShouldPreAuthenticateAlways(strategy, authenticated) == ~authenticated
\* The guard, had it also asked that no authenticate call be in progress.
ShouldPreAuthenticateSingleFlight(strategy, authenticated) ==
  /\ strategy # "undefined"
  /\ ~authenticated
  /\ \A u \in Tasks : \A i \in 1..Len(stack[u]) : stack[u][i].kind # "authenticate"
ShouldPreAuthenticate(strategy, authenticated) ==
  strategy # "undefined" /\ ~authenticated

\* The guard of the rejection half of notifyOnUnauthorizedResponse.
IsAuthorizationErrorNever(v) == FALSE
IsAuthorizationError(v) == v.kind = "HTTPAuthorizationError"

\* The guard of the fulfillment half of notifyOnUnauthorizedResponse.
IsUnauthorized(v) == ~ResponseOk(v) /\ v.status = UNAUTHORIZED

\* AuthManager.handleUnauthorizedError
HandleUnauthorizedErrorKeeps(authenticated) == authenticated
HandleUnauthorizedError(authenticated) == FALSE

\* The catch block of AuthManager.authenticate swallows the error.
AuthenticateRethrows == FALSE
AuthenticateSwallows == TRUE

\* The catch block of HttpClient.request: throw await ...reject(error).
CatchReturns == "resolved"
CatchOutcome == "rejected"

\* ------------------------------------------------------------------ Init
Init ==
  /\ stack = [t \in Tasks |-> <<>>]
  /\ isAuthenticated = FALSE
  /\ \E cfg \in {"none"} \cup Strategies :
       IF cfg = "none"
         THEN providers = <<>> /\ authProvider = NoProvider /\ created = NoCreate
         ELSE /\ providers = <<FactoryCreate(cfg).provider>> /\ authProvider = 1
              /\ created = FactoryCreate(cfg)
  /\ reqHandlers = DefaultRequestHandlers
  /\ respHandlers = DefaultResponseHandlers
  /\ last401 = FALSE
  /\ authSince401 = FALSE
  /\ authedBy = NoProvider
  /\ config = DefaultClient
  /\ fork = NoFork
  /\ setterThrew = "none"
  /\ strapi = Built



\* ------------------------------------------------- request(): local steps
\* A clearTimeout that leaves the timer pending.
ClearTimeoutKeeps(f) == [f EXCEPT !.clears = @ + 1]

\* clearTimeout(timeoutId)
ClearTimeout(f) ==
  [f EXCEPT !.timer = IF @ = "armed" THEN "cleared" ELSE @, !.clears = @ + 1]

\* A request() whose try block starts before the request-phase execute: the
\* raise lands in its catch block.
RaiseInRequestPhaseCaught(f, err, by) ==
  ClearTimeout([f EXCEPT !.pc = "reject", !.idx = 1, !.val = err,
                         !.failed = TRUE, !.err0 = err, !.raisedBy = by])

\* A request-phase handler raised and its entry has no rejected handler:
\* execute rejects, and request() rejects with it (the await is outside the try).
RaiseInRequestPhase(f, err, by) ==
  [f EXCEPT !.pc = "settled", !.result = "rejected", !.val = err, !.raisedBy = by]

\* A catch block that would send the request again, once.
EnterCatchRetries(f, err, by) ==
  IF Cardinality({i \in 1..Len(f.log) : f.log[i][1] = "net"}) < 2
    THEN [f EXCEPT !.pc = "fetch", !.timer = "armed", !.arms = @ + 1,
                   !.log = Append(@, <<"net", 0>>)]
    ELSE ClearTimeout([f EXCEPT !.pc = "reject", !.idx = 1, !.val = err,
                                !.failed = TRUE, !.err0 = err, !.raisedBy = by])

\* A catch block whose reject pass goes on after the entry that raised.
EnterCatchResumes(f, err, by) ==
  ClearTimeout([f EXCEPT !.pc = "reject",
                         !.idx = IF f.pc = "respExec" THEN f.idx + 1 ELSE 1,
                         !.val = err,
                         !.failed = TRUE, !.err0 = err, !.raisedBy = by])

\* The network call or the response-phase execute raised: the catch block of
\* request() clears the timer and starts interceptors.response.reject(error).
EnterCatch(f, err, by) ==
  ClearTimeout([f EXCEPT !.pc = "reject", !.idx = 1, !.val = err,
                         !.failed = TRUE, !.err0 = err, !.raisedBy = by])

\* Request handlers that read and write nothing but the request they are given.
LocalRequestKinds == {"none", "pass", "throw", "signal", "setDefaultHeaders"}

\* One iteration of execute over the request chain, for such a handler.
ExecuteRequestEntry(f) ==
  LET k == f.idx
      h == ReqChain(f)[k].ful
  IN IF h = "throw"
       THEN RaiseInRequestPhase(f, Error("CustomError", 0), "throw")
       ELSE [f EXCEPT !.idx = k + 1,
                      !.log = Append(@, <<"req", k>>),
                      !.req = CASE h = "setDefaultHeaders" -> SetDefaultHeaders(@)
                                [] h = "signal" -> [@ EXCEPT !.signal = "interceptor"]
                                [] OTHER -> @]

\* The signal of new Request(processedRequest, { signal: controller.signal }),
\* given the signal of processedRequest.
NetworkSignalKeeps(signal) == IF signal = "none" THEN "controller" ELSE signal
NetworkSignal(signal) == "controller"

\* execute returned: arm the timeout timer, wrap the processed request with the
\* controller's signal and start the network call.
StartNetwork(f) ==
  [f EXCEPT !.pc = "fetch", !.timer = "armed", !.arms = @ + 1,
            !.sigIn = f.req.signal,
            !.req = [@ EXCEPT !.signal = NetworkSignal(@)],
            !.log = Append(@, <<"net", Len(ReqChain(f))>>)]

\* The fulfilled handlers of a client that maps no response to an error.
RespFulfilledPasses(h, v) == [raised |-> FALSE, val |-> v]

\* What a fulfilled response handler does with the running value.
RespFulfilled(h, v) ==
  CASE h = "transformErrors" ->
         IF ResponseOk(v) THEN [raised |-> FALSE, val |-> v]
         ELSE [raised |-> TRUE, val |-> MapResponseToHTTPError(v)]
    [] h = "throw" -> [raised |-> TRUE, val |-> Error("CustomError", 0)]
    [] h = "tag1" -> [raised |-> FALSE, val |-> Tag(v, "f1")]
    [] h = "tag2" -> [raised |-> FALSE, val |-> Tag(v, "f2")]
    [] OTHER -> [raised |-> FALSE, val |-> v]

\* What a rejected handler does with the error it is given.
RespRejected(r, e) ==
  CASE r = "swap" -> [raised |-> FALSE, val |-> Recovered]
    [] r = "throw" -> [raised |-> TRUE, val |-> Error("CustomError", 0)]
    [] r = "tag1" -> [raised |-> FALSE, val |-> Tag(e, "r1")]
    [] r = "tag2" -> [raised |-> FALSE, val |-> Tag(e, "r2")]
    [] OTHER -> [raised |-> FALSE, val |-> e]

\* One iteration of execute that rethrows whatever the fulfilled handler raises.
ExecuteEntryRethrows(entry, v) ==
  IF entry.ful = "none" THEN [raised |-> FALSE, val |-> v]
  ELSE RespFulfilled(entry.ful, v)

\* The try/catch of one iteration of execute: the fulfilled handler, and the
\* entry's own rejected handler when the fulfilled handler raises.
ExecuteEntry(entry, v) ==
  LET a == IF entry.ful = "none" THEN [raised |-> FALSE, val |-> v]
           ELSE RespFulfilled(entry.ful, v)
  IN IF ~a.raised THEN a
     ELSE IF entry.rej = "none" THEN a
     ELSE RespRejected(entry.rej, a.val)

\* One iteration of execute over the response chain; a raise that leaves
\* execute lands in the catch block of request().
ExecuteResponseEntry(f) ==
  LET k == f.idx
      entry == RespChain(f)[k]
      out == ExecuteEntry(entry, f.val)
  IN IF out.raised
       THEN IF f.kind = "execute"
              THEN [f EXCEPT !.pc = "settled", !.result = "rejected",
                             !.val = out.val, !.raisedBy = entry.ful]
              ELSE EnterCatch(f, out.val, entry.ful)
       ELSE [f EXCEPT !.idx = k + 1, !.val = out.val,
                      !.log = Append(@, <<"resp", k>>)]

\* execute returned: request() returns the processed response.
ReturnResponse(f) ==
  [f EXCEPT !.pc = "settled", !.result = "resolved",
            !.log = Append(@, <<"ret", Len(RespChain(f))>>)]

\* One iteration of reject that calls the rejected handler and drops what it
\* returns.
RejectEntryDropsValue(f) ==
  [f EXCEPT !.idx = @ + 1]

\* One iteration of reject over the response chain; a rejected handler that
\* raises makes reject, and with it request(), reject with what it raised.
RejectEntry(f) ==
  LET k == f.idx
      r == RespChain(f)[k].rej
      out == IF r = "none" THEN [raised |-> FALSE, val |-> f.val]
             ELSE RespRejected(r, f.val)
      g == [f EXCEPT !.rejs = IF r = "none" THEN @ ELSE Append(@, k)]
  IN IF out.raised
       THEN [g EXCEPT !.pc = "settled", !.result = "rejected",
                      !.val = out.val, !.raisedBy = "reject", !.nRej = k]
       ELSE [g EXCEPT !.idx = k + 1, !.val = out.val]

\* reject returned the value it produced: request() throws it, a direct caller
\* of reject receives it.
RejectDone(f) ==
  [f EXCEPT !.pc = "settled",
            !.result = IF f.kind = "reject" THEN "resolved" ELSE CatchOutcome,
            !.nRej = Len(RespChain(f))]

\* HttpInterceptorManager.reject as a function of the chain it runs over,
\* from entry k on: the error is threaded through every rejected handler, and
\* a handler that raises ends the pass with what it raised.
RECURSIVE Reject(_, _, _)
Reject(handlers, k, e) ==
  IF ExecuteDone(k, handlers) THEN [raised |-> FALSE, val |-> e]
  ELSE LET r == handlers[k].rej
           out == IF r = "none" THEN [raised |-> FALSE, val |-> e]
                  ELSE RespRejected(r, e)
       IN IF out.raised THEN out ELSE Reject(handlers, k + 1, out.val)

\* The next step of f calls notify() of notifyOnUnauthorizedResponse.
Tells(f) ==
  /\ f.kind = "request"
  /\ \/ /\ f.pc = "respExec"
        /\ ~ExecuteDone(f.idx, RespChain(f))
        /\ RespChain(f)[f.idx].ful = "notifyFulfilled"
        /\ IsUnauthorized(f.val)
     \/ /\ f.pc = "reject"
        /\ ~ExecuteDone(f.idx, RespChain(f))
        /\ RespChain(f)[f.idx].rej = "notifyRejected"
        /\ IsAuthorizationError(f.val)

\* The next step of f touches nothing but f.
IsLocal(f) ==
  /\ f.kind \in {"request", "execute", "reject"}
  /\ CASE f.pc = "reqExec" ->
            \/ ExecuteDone(f.idx, ReqChain(f))
            \/ ReqChain(f)[f.idx].ful \in LocalRequestKinds
       [] f.pc \in {"respExec", "reject"} -> ~Tells(f)
       [] OTHER -> FALSE

LocalStep(f) ==
  CASE f.pc = "reqExec" ->
         IF ExecuteDone(f.idx, ReqChain(f)) THEN StartNetwork(f)
         ELSE ExecuteRequestEntry(f)
    [] f.pc = "respExec" ->
         IF ExecuteDone(f.idx, RespChain(f)) THEN ReturnResponse(f)
         ELSE ExecuteResponseEntry(f)
    [] f.pc = "reject" ->
         IF ExecuteDone(f.idx, RespChain(f)) THEN RejectDone(f)
         ELSE RejectEntry(f)

\* request() runs on until it touches shared state, awaits the network or settles.
RECURSIVE Run(_)
Run(f) == IF IsLocal(f) THEN Run(LocalStep(f)) ELSE f


\* ------------------------------------------------------- AuthManager calls
\* notify() of notifyOnUnauthorizedResponse, as recorded in the calling frame.
Notified(f) == [f EXCEPT !.notified = TRUE, !.authBefore = isAuthenticated]

\* The synchronous start of AuthManager.authenticate(http), called with the
\* caller's frames in below: up to the first await of the manager.
BeginAuthenticate(t, below, createRaises) ==
  LET p == authProvider IN
  IF p = NoProvider THEN
    /\ stack' = [stack EXCEPT ![t] = Append(below, AuthFrame(p, "settled", "noProvider"))]
    /\ isAuthenticated' = FALSE
  ELSE IF createRaises THEN
    /\ stack' = [stack EXCEPT ![t] =
         Append(below, [AuthFrame(p, "settled", "createRaised") EXCEPT
                          !.result = IF AuthenticateSwallows THEN "resolved"
                                     ELSE "rejected"])]
    /\ isAuthenticated' = FALSE
  ELSE IF providers[p].name = API_TOKEN THEN
    /\ stack' = [stack EXCEPT ![t] = Append(below, AuthFrame(p, "provOk", "pending"))]
    /\ UNCHANGED isAuthenticated
  ELSE
    /\ stack' = [stack EXCEPT ![t] =
         below \o << AuthFrame(p, "awaitProvider", "pending"),
                     Run(RequestFrame("fork",
                           Create(reqHandlers, respHandlers,
                                  AuthenticateInheritsInterceptors),
                           [NoHeaders EXCEPT !.ctype = <<"caller">>],
                           FALSE)) >>]
    /\ UNCHANGED isAuthenticated

\* ----------------------------------------------------- top-level callers
\* Strapi.fetch(url, init) -> HttpClient.request
Issue(t, init) ==
  /\ ~Busy(t)
  /\ stack' = [stack EXCEPT ![t] =
       << Run(RequestFrame("main", [reqH |-> <<>>, respH |-> <<>>], init,
                           last401 /\ authProvider # NoProvider)) >>]
  /\ last401' = FALSE
  /\ UNCHANGED clientVars
  /\ UNCHANGED <<isAuthenticated, authProvider, providers, reqHandlers,
                 respHandlers, authSince401, authedBy>>

\* Strapi.fetch(path, init) -> HttpClient.request(path, init): the frame
\* keeps the path given and the URL built from it.
Request(t, path, init) ==
  /\ ~Busy(t)
  /\ stack' = [stack EXCEPT ![t] =
       << Run([RequestFrame("main", [reqH |-> <<>>, respH |-> <<>>], init,
                            last401 /\ authProvider # NoProvider)
                 EXCEPT !.path = path,
                        !.url = Join(config.baseURL, SafePath(path))]) >>]
  /\ last401' = FALSE
  /\ UNCHANGED clientVars
  /\ UNCHANGED <<isAuthenticated, authProvider, providers, reqHandlers,
                 respHandlers, authSince401, authedBy>>

\* A direct call of AuthManager.authenticate(http) by the application.
DirectAuthenticate(t, createRaises) ==
  /\ ~Busy(t)
  /\ createRaises => authProvider # NoProvider
  /\ BeginAuthenticate(t, <<>>, createRaises)
  /\ UNCHANGED clientVars
  /\ UNCHANGED <<authProvider, providers, reqHandlers, respHandlers, last401, authSince401, authedBy>>

\* AuthManager.setStrategy(strategy, options): the provider the factory
\* creates becomes the current one; a raise of create leaves the manager as
\* it was.
SetStrategy(name) ==
  /\ Len(providers) < MaxProviders
  /\ created' = FactoryCreate(name)
  /\ IF FactoryCreate(name).raised
       THEN UNCHANGED <<providers, authProvider>>
       ELSE /\ providers' = Append(providers, FactoryCreate(name).provider)
            /\ authProvider' = Len(providers) + 1
  /\ UNCHANGED <<config, fork, setterThrew, strapi>>
  /\ UNCHANGED <<stack, isAuthenticated, reqHandlers, respHandlers, last401, authSince401, authedBy>>

\* interceptors.request.use(...) / interceptors.response.use(...)
UseRequest(e) ==
  /\ Len(reqHandlers) < Len(DefaultRequestHandlers) + MaxCustom
  /\ reqHandlers' = Append(reqHandlers, e)
  /\ UNCHANGED clientVars
  /\ UNCHANGED <<stack, isAuthenticated, authProvider, providers, respHandlers,
                 last401, authSince401, authedBy>>

UseResponse(e) ==
  /\ Len(respHandlers) < Len(DefaultResponseHandlers) + MaxCustom
  /\ respHandlers' = Append(respHandlers, e)
  /\ UNCHANGED clientVars
  /\ UNCHANGED <<stack, isAuthenticated, authProvider, providers, reqHandlers,
                 last401, authSince401, authedBy>>

\* A direct call of execute(value) on the manager: none of its handlers
\* touches anything but the value, so the call runs to its end.
CallExecute(t, v) ==
  /\ ~Busy(t)
  /\ stack' = [stack EXCEPT ![t] =
                 <<Run([BaseFrame EXCEPT !.kind = "execute", !.client = "main",
                                         !.pc = "respExec", !.arg = v, !.val = v])>>]
  /\ UNCHANGED clientVars
  /\ UNCHANGED <<isAuthenticated, authProvider, providers, reqHandlers,
                 respHandlers, last401, authSince401, authedBy>>

\* A direct call of reject(error) on the manager.
CallReject(t, e) ==
  /\ ~Busy(t)
  /\ stack' = [stack EXCEPT ![t] =
                 <<Run([BaseFrame EXCEPT !.kind = "reject", !.client = "main",
                                         !.pc = "reject", !.arg = e, !.val = e])>>]
  /\ UNCHANGED clientVars
  /\ UNCHANGED <<isAuthenticated, authProvider, providers, reqHandlers,
                 respHandlers, last401, authSince401, authedBy>>

\* The promise of a direct call of execute or reject settles towards its caller.
Return(t) ==
  /\ Depth(t) = 1
  /\ Top(t).kind \in {"execute", "reject"}
  /\ Top(t).pc = "settled"
  /\ stack' = [stack EXCEPT ![t] = <<>>]
  /\ UNCHANGED clientVars
  /\ UNCHANGED <<isAuthenticated, authProvider, providers, reqHandlers,
                 respHandlers, last401, authSince401, authedBy>>

\* ------------------------------------------------------ calls on the clients
\* _handlers of one of the fork's managers, which: "request" or "response".
ParentChain(which) == IF which = "request" THEN reqHandlers ELSE respHandlers
ForkChain(which) ==
  IF fork[which].array = "parent" THEN ParentChain(which) ELSE fork[which].handlers

\* fork = client.create(over, inheritInterceptors): the constructor may throw,
\* else the fork's managers are replaced with clones when the interceptors are
\* inherited. from and own keep what the parent's chains were at the call and
\* what was registered through the fork since, set whether a setter of the
\* fork has acted since.
CreateFork(over, inheritInterceptors) ==
  /\ LET made == CreateClient(config, over)
         chains == Create(reqHandlers, respHandlers, inheritInterceptors)
         array == IF inheritInterceptors THEN ClonedArray ELSE "own"
         from == [request |-> reqHandlers, response |-> respHandlers]
     IN fork' = IF made.raised
                  THEN [made |-> FALSE, raised |-> TRUE, over |-> over, from |-> from]
                  ELSE [made |-> TRUE, raised |-> FALSE, over |-> over, from |-> from,
                        inherit |-> inheritInterceptors, set |-> FALSE,
                        cls |-> made.client.cls, baseURL |-> made.client.baseURL,
                        timeout |-> made.client.timeout, headers |-> made.client.headers,
                        request |-> [array |-> array, handlers |-> chains.reqH],
                        response |-> [array |-> array, handlers |-> chains.respH],
                        own |-> [request |-> <<>>, response |-> <<>>]]
  /\ UNCHANGED <<created, setterThrew, strapi>>
  /\ UNCHANGED <<stack, isAuthenticated, authProvider, providers, reqHandlers,
                 respHandlers, last401, authSince401, authedBy, config>>

\* fork.interceptors[which].use(...): a push on the array behind that manager.
ForkUse(which, e) ==
  /\ fork.made
  /\ Len(ForkChain(which)) < Len(DefaultResponseHandlers) + MaxCustom
  /\ fork' = [fork EXCEPT ![which].handlers =
                             IF fork[which].array = "parent" THEN @ ELSE Append(@, e),
                           !.own[which] = Append(@, e)]
  /\ reqHandlers' = IF which = "request" /\ fork[which].array = "parent"
                      THEN Append(reqHandlers, e) ELSE reqHandlers
  /\ respHandlers' = IF which = "response" /\ fork[which].array = "parent"
                       THEN Append(respHandlers, e) ELSE respHandlers
  /\ UNCHANGED <<created, setterThrew, strapi>>
  /\ UNCHANGED <<stack, isAuthenticated, authProvider, providers, last401,
                 authSince401, authedBy, config>>

\* A direct call of execute(value) on the fork's response manager.
ForkExecute(t, v) ==
  /\ fork.made
  /\ ~Busy(t)
  /\ stack' = [stack EXCEPT ![t] =
                 <<Run([BaseFrame EXCEPT !.kind = "execute", !.client = "fork",
                                         !.respH = ForkChain("response"),
                                         !.pc = "respExec", !.arg = v, !.val = v])>>]
  /\ UNCHANGED clientVars
  /\ UNCHANGED <<isAuthenticated, authProvider, providers, reqHandlers,
                 respHandlers, last401, authSince401, authedBy>>

\* setBaseURL(url) on the client (who = "parent") or on its fork: throws
\* unless url validates, then stores it formatted.
SetBaseURL(who, url) ==
  /\ who = "fork" => fork.made
  /\ setterThrew' = ValidateThrows(url)
  /\ config' = IF who = "parent" /\ Validate(url)
                 THEN [config EXCEPT !.baseURL = Format(url)] ELSE config
  /\ fork' = IF who = "fork" /\ Validate(url)
               THEN [fork EXCEPT !.baseURL = Format(url), !.set = TRUE] ELSE fork
  /\ UNCHANGED <<created, strapi>>
  /\ UNCHANGED <<stack, isAuthenticated, authProvider, providers, reqHandlers,
                 respHandlers, last401, authSince401, authedBy>>

\* setTimeout(timeout): throws unless timeout is a safe integer.
SetTimeout(who, timeout) ==
  /\ who = "fork" => fork.made
  /\ setterThrew' = IF IsSafeInteger(timeout) THEN "none" ELSE "TypeError"
  /\ config' = IF who = "parent" /\ IsSafeInteger(timeout)
                 THEN [config EXCEPT !.timeout = timeout] ELSE config
  /\ fork' = IF who = "fork" /\ IsSafeInteger(timeout)
               THEN [fork EXCEPT !.timeout = timeout, !.set = TRUE] ELSE fork
  /\ UNCHANGED <<created, strapi>>
  /\ UNCHANGED <<stack, isAuthenticated, authProvider, providers, reqHandlers,
                 respHandlers, last401, authSince401, authedBy>>

\* ----------------------------------------------- request(): shared steps
\* What a frame records about its request phase is kept until the network
\* call ends.
LeaveFetch(f) ==
  [f EXCEPT !.after401 = FALSE, !.authCalled = FALSE, !.okSince = FALSE,
            !.preflightFailed = FALSE, !.flagAtInject = "none"]


\* AuthInterceptors.ensurePreAuthentication, up to its await.
PreAuth(t, createRaises) ==
  /\ AtRequest(t, "reqExec")
  /\ LET f == Top(t)
         ch == ReqChain(f)
         k == f.idx
     IN /\ ~ExecuteDone(k, ch)
        /\ ch[k].ful = "ensurePreAuthentication"
        /\ IF ShouldPreAuthenticate(Strategy, isAuthenticated)
             THEN /\ Depth(t) + 2 <= MaxDepth
                  /\ BeginAuthenticate(t,
                       Append(Pop(stack[t]), [f EXCEPT !.authCalled = TRUE]),
                       createRaises)
             ELSE /\ ~createRaises
                  /\ stack' = WithTop(t,
                       Run([f EXCEPT !.idx = k + 1, !.log = Append(@, <<"req", k>>),
                                     !.okSince = authSince401]))
                  /\ UNCHANGED isAuthenticated
  /\ UNCHANGED clientVars
  /\ UNCHANGED <<authProvider, providers, reqHandlers, respHandlers, last401, authSince401, authedBy>>

\* AuthInterceptors.authenticateRequests
AuthenticateRequests(t) ==
  /\ AtRequest(t, "reqExec")
  /\ LET f == Top(t)
         ch == ReqChain(f)
         k == f.idx
     IN /\ ~ExecuteDone(k, ch)
        /\ ch[k].ful = "authenticateRequests"
        /\ stack' = WithTop(t,
             Run([f EXCEPT !.idx = k + 1, !.log = Append(@, <<"req", k>>),
                           !.req = AuthenticateRequest(@),
                           !.flagAtInject = IF isAuthenticated THEN "authenticated"
                                            ELSE "unauthenticated"]))
  /\ UNCHANGED clientVars
  /\ UNCHANGED <<isAuthenticated, authProvider, providers, reqHandlers,
                 respHandlers, last401, authSince401, authedBy>>

\* The network call resolves with a response: clearTimeout, then execute.
NetResolve(t, s) ==
  /\ AtRequest(t, "fetch")
  /\ stack' = WithTop(t,
       Run(ClearTimeout([LeaveFetch(Top(t)) EXCEPT !.pc = "respExec", !.idx = 1,
                                       !.val = WithRequest(Response(s), Top(t).req),
                                       !.received = s,
                                       !.log = Append(@, <<"netdone", 0>>)])))
  /\ UNCHANGED clientVars
  /\ UNCHANGED <<isAuthenticated, authProvider, providers, reqHandlers,
                 respHandlers, last401, authSince401, authedBy>>

\* The network call rejects.
NetFail(t) ==
  /\ AtRequest(t, "fetch")
  /\ stack' = WithTop(t, Run(EnterCatch(LeaveFetch(Top(t)), Error("NetworkError", 0), "fetch")))
  /\ UNCHANGED clientVars
  /\ UNCHANGED <<isAuthenticated, authProvider, providers, reqHandlers,
                 respHandlers, last401, authSince401, authedBy>>

\* The timer fires: controller.abort() makes the network call reject when the
\* request it was given carries the controller's signal.
Timeout(t) ==
  /\ AtRequest(t, "fetch")
  /\ Top(t).timer = "armed"
  /\ stack' = WithTop(t,
       IF Top(t).req.signal = "controller"
         THEN Run(EnterCatch([LeaveFetch(Top(t)) EXCEPT !.timer = "fired"],
                             Error("AbortError", 0), "fetch"))
         ELSE [Top(t) EXCEPT !.timer = "fired"])
  /\ UNCHANGED clientVars
  /\ UNCHANGED <<isAuthenticated, authProvider, providers, reqHandlers,
                 respHandlers, last401, authSince401, authedBy>>

\* A handler of notifyOnUnauthorizedResponse sees a 401 and calls
\* authManager.handleUnauthorizedError().
Notify(t) ==
  /\ Busy(t)
  /\ Tells(Top(t))
  /\ LET f == Top(t)
     IN stack' = WithTop(t,
          Run(Notified(IF f.pc = "respExec" THEN ExecuteResponseEntry(f)
                       ELSE RejectEntry(f))))
  /\ isAuthenticated' = HandleUnauthorizedError(isAuthenticated)
  /\ authSince401' = FALSE
  /\ UNCHANGED clientVars
  /\ UNCHANGED <<authProvider, providers, reqHandlers, respHandlers, last401, authedBy>>

\* The promise of a top-level request() settles towards the application.
Complete(t) ==
  /\ Depth(t) = 1
  /\ AtRequest(t, "settled")
  /\ stack' = [stack EXCEPT ![t] = <<>>]
  /\ last401' = IF Top(t).err0.status = UNAUTHORIZED THEN TRUE ELSE last401
  /\ UNCHANGED clientVars
  /\ UNCHANGED <<isAuthenticated, authProvider, providers, reqHandlers,
                 respHandlers, authSince401, authedBy>>

\* ---------------------------------------------- the authentication handshake
\* UsersPermissionsAuthProvider.authenticate resumes with the outcome of its
\* httpClient.post: it raises unless the response is ok, else awaits json().
PostSucceededUnchecked(f) == f.result = "resolved"
PostSucceeded(f) == f.result = "resolved" /\ ResponseOk(f.val)

HandshakeResponse(t) ==
  /\ Depth(t) >= 2
  /\ AtRequest(t, "settled")
  /\ LET f == Top(t)
         a == stack[t][Depth(t) - 1]
     IN /\ a.kind = "authenticate" /\ a.pc = "awaitProvider"
        /\ stack' = [stack EXCEPT ![t] =
             Append(SubSeq(@, 1, Len(@) - 2),
                    [a EXCEPT !.pc = IF PostSucceeded(f) THEN "json" ELSE "provRaised",
                              !.val = f.val])]
  /\ UNCHANGED clientVars
  /\ UNCHANGED <<isAuthenticated, authProvider, providers, reqHandlers,
                 respHandlers, last401, authSince401, authedBy>>

\* The bodies a handshake response may have: an object with a jwt string,
\* text that is not JSON, and JSON without a jwt.
Bodies == {"withJwt", "notJson", "noJwt"}

\* data.jwt of a body, "none" where json() or data.jwt.slice raises.
JwtOf(body) == IF body = "withJwt" THEN "jwt" ELSE "none"

\* A provider that assigns _token before it looks at data.jwt.
StoredTokenAssigned(token, jwt) == jwt

\* _token after the end of authenticate: this._token = data.jwt is its last
\* statement, not reached when json() or data.jwt.slice raised.
StoredToken(token, jwt) == IF jwt = "none" THEN token ELSE jwt

\* response.json() settles: the provider stores data.jwt, or raises on a body
\* that cannot be parsed or holds no token.
ParseBody(t, body) ==
  /\ AtAuth(t, "json")
  /\ LET a == Top(t)
     IN /\ providers' = [providers EXCEPT ![a.prov].token = StoredToken(@, JwtOf(body))]
        /\ stack' = WithTop(t, [a EXCEPT !.body = body,
                                         !.pc = IF JwtOf(body) # "none" THEN "provOk"
                                                ELSE "provRaised"])
  /\ UNCHANGED clientVars
  /\ UNCHANGED <<isAuthenticated, authProvider, reqHandlers, respHandlers,
                 last401, authSince401, authedBy>>

\* An assignment that a call which started earlier than another does not
\* make once the manager is authenticated.
AssignUnlessAuthenticated(current, outcome) == current \/ outcome

\* this._isAuthenticated = true, = false: whatever it held before.
Assign(current, outcome) == outcome

\* AuthManager.authenticate resumes after the provider completed.
AuthSucceed(t) ==
  /\ AtAuth(t, "provOk")
  /\ isAuthenticated' = Assign(isAuthenticated, TRUE)
  /\ authedBy' = Top(t).prov
  /\ authSince401' = TRUE
  /\ stack' = WithTop(t, [Top(t) EXCEPT !.pc = "settled", !.result = "resolved",
                                        !.how = "providerOk",
                                        !.val = NoValue, !.body = "none"])
  /\ UNCHANGED clientVars
  /\ UNCHANGED <<authProvider, providers, reqHandlers, respHandlers, last401>>

\* AuthManager.authenticate resumes in its catch block.
AuthFail(t) ==
  /\ AtAuth(t, "provRaised")
  /\ isAuthenticated' = Assign(isAuthenticated, FALSE)
  /\ stack' = WithTop(t,
       [Top(t) EXCEPT !.pc = "settled", !.how = "providerRaised",
                      !.val = NoValue, !.body = "none",
                      !.result = IF AuthenticateSwallows THEN "resolved"
                                 ELSE "rejected"])
  /\ UNCHANGED clientVars
  /\ UNCHANGED <<authProvider, providers, reqHandlers, respHandlers, last401, authSince401, authedBy>>

\* The promise of authenticate settles: ensurePreAuthentication returns
\* { request } and execute goes on, or the direct caller resumes.
AuthReturn(t) ==
  /\ AtAuth(t, "settled")
  /\ LET a == Top(t)
         below == Pop(stack[t])
     IN IF below = <<>>
          THEN stack' = [stack EXCEPT ![t] = <<>>]
          ELSE LET f == below[Len(below)]
                   f1 == IF a.result = "resolved"
                           THEN [f EXCEPT !.idx = @ + 1,
                                          !.log = Append(@, <<"req", f.idx>>),
                                          !.preflightFailed = (a.how # "providerOk")]
                           ELSE RaiseInRequestPhase(
                                  [f EXCEPT !.preflightFailed = TRUE],
                                  Error("AuthError", 0), "ensurePreAuthentication")
               IN stack' = [stack EXCEPT ![t] = Append(Pop(below), Run(f1))]
  /\ UNCHANGED clientVars
  /\ UNCHANGED <<isAuthenticated, authProvider, providers, reqHandlers,
                 respHandlers, last401, authSince401, authedBy>>

\* ------------------------------------------------------------------ Next
\* The steps of the calls of task t, short of the timer.
Steps(t) ==
  \/ \E createRaises \in BOOLEAN : PreAuth(t, createRaises)
  \/ AuthenticateRequests(t)
  \/ \E s \in Statuses : NetResolve(t, s)
  \/ NetFail(t)
  \/ Notify(t)
  \/ Complete(t)
  \/ HandshakeResponse(t)
  \/ \E body \in Bodies : ParseBody(t, body)
  \/ AuthSucceed(t)
  \/ AuthFail(t)
  \/ AuthReturn(t)

\* Two concurrent callers of a Strapi client with the interceptors its
\* constructor registers and the strategy it was given: both issue requests, and
\* caller b also calls authenticate directly. A timeout is one more way for the
\* network call to fail and is left to SpecPipeline.
Next ==
  \/ \E t \in Tasks : Issue(t, NoHeaders)
  \/ \E createRaises \in BOOLEAN : DirectAuthenticate("b", createRaises)
  \/ \E t \in Tasks : Steps(t)

Spec == Init /\ [][Next]_vars

\* An application that replaces the strategy at any time: caller a issues
\* requests while caller b calls authenticate directly.
NextStrategy ==
  \/ Issue("a", NoHeaders)
  \/ \E createRaises \in BOOLEAN : DirectAuthenticate("b", createRaises)
  \/ \E name \in Strategies : SetStrategy(name)
  \/ \E t \in Tasks : Steps(t)

SpecStrategy == Init /\ [][NextStrategy]_vars

\* One caller of a client on which the application registers interceptors of
\* its own, at any time, and whose network calls may time out; the strategy is
\* the one the constructor was given.
NextPipeline ==
  \/ \E init \in InitHeaders : Issue("a", init)
  \/ \E createRaises \in BOOLEAN : DirectAuthenticate("a", createRaises)
  \/ \E e \in CustomRequestEntries : UseRequest(e)
  \/ \E e \in CustomResponseEntries : UseResponse(e)
  \/ Steps("a")
  \/ Timeout("a")

SpecPipeline == Init /\ [][NextPipeline]_vars

\* An interceptor manager used on its own: it starts empty, handlers are
\* registered with use(), and two callers call execute and reject on it.
InitManager ==
  /\ stack = [t \in Tasks |-> <<>>]
  /\ isAuthenticated = FALSE
  /\ providers = <<>>
  /\ authProvider = NoProvider
  /\ reqHandlers = <<>>
  /\ respHandlers = <<>>
  /\ last401 = FALSE
  /\ authSince401 = FALSE
  /\ authedBy = NoProvider
  /\ config = DefaultClient
  /\ fork = NoFork
  /\ setterThrew = "none"
  /\ strapi = NoStrapi
  /\ created = NoCreate

NextManager ==
  \/ \E e \in ManagerEntries : UseResponse(e)
  \/ \E t \in Tasks : CallExecute(t, Value)
  \/ \E t \in Tasks : CallReject(t, Error("Error", 0))
  \/ \E t \in Tasks : Return(t)

SpecManager == InitManager /\ [][NextManager]_vars

\* What the client and its fork register on their chains.
ParentRequestEntries == {Entry("pass", "none")}
ParentResponseEntries == {Entry("tag1", "none"), Entry("pass", "none")}
ForkRequestEntries == {Entry("signal", "none")}
ForkResponseEntries == {Entry("tag2", "none")}

\* A bare HttpClient and the fork it creates with its own configuration: one
\* caller, whose calls follow one another, registers handlers on the chains of
\* both in any order and runs the response chain of either.
NextFork ==
  \/ ~Busy("a") /\ \E e \in ParentRequestEntries : UseRequest(e)
  \/ ~Busy("a") /\ \E e \in ParentResponseEntries : UseResponse(e)
  \/ ~Busy("a") /\ \E inheritInterceptors \in BOOLEAN :
                      CreateFork(NoOverrides, inheritInterceptors)
  \/ ~Busy("a") /\ \E e \in ForkRequestEntries : ForkUse("request", e)
  \/ ~Busy("a") /\ \E e \in ForkResponseEntries : ForkUse("response", e)
  \/ CallExecute("a", Value)
  \/ ForkExecute("a", Value)
  \/ Return("a")

SpecFork == InitManager /\ [][NextFork]_vars

\* A bare HttpClient of either class, as its constructor leaves it.
InitClient ==
  /\ stack = [t \in Tasks |-> <<>>]
  /\ isAuthenticated = FALSE
  /\ providers = <<>>
  /\ authProvider = NoProvider
  /\ reqHandlers = <<>>
  /\ respHandlers = <<>>
  /\ last401 = FALSE
  /\ authSince401 = FALSE
  /\ authedBy = NoProvider
  /\ \E cls \in {"HttpClient", "MockHttpClient"} :
       config = HttpClientConstructor(
                  [baseURL |-> Url(0, "https://a.io", 1), timeout |-> Undefined,
                   headers |-> Undefined], cls).client
  /\ fork = NoFork
  /\ setterThrew = "none"
  /\ strapi = NoStrapi
  /\ created = NoCreate

\* The configuration of a client and of its fork: create() with any
\* overrides, and the setters on both.
NextCreate ==
  \/ \E over \in Overrides : CreateFork(over, InheritInterceptorsDefault)
  \/ \E who \in {"parent", "fork"} : \E url \in Urls : SetBaseURL(who, url)
  \/ \E who \in {"parent", "fork"} : \E timeout \in Timeouts : SetTimeout(who, timeout)

SpecCreate == InitClient /\ [][NextCreate]_vars

\* A Strapi client whose HTTP client was built by a factory with or without
\* static headers, and one caller who passes headers of its own or none.
InitStatic ==
  /\ stack = [t \in Tasks |-> <<>>]
  /\ isAuthenticated = FALSE
  /\ \E cfg \in {"none"} \cup Strategies :
       IF cfg = "none"
         THEN providers = <<>> /\ authProvider = NoProvider /\ created = NoCreate
         ELSE /\ providers = <<FactoryCreate(cfg).provider>> /\ authProvider = 1
              /\ created = FactoryCreate(cfg)
  /\ reqHandlers = DefaultRequestHandlers
  /\ respHandlers = DefaultResponseHandlers
  /\ last401 = FALSE
  /\ authSince401 = FALSE
  /\ authedBy = NoProvider
  /\ \E names \in {{}, {"Accept"}, HeaderNames} :
       config = [DefaultClient EXCEPT !.headers = Headers(names)]
  /\ fork = NoFork
  /\ setterThrew = "none"
  /\ strapi = NoStrapi

NextHeaders ==
  \/ \E init \in InitHeaders : Issue("a", init)
  \/ Steps("a")

SpecHeaders == InitStatic /\ [][NextHeaders]_vars

\* A Strapi client with its default interceptors, one caller, and a server
\* that answers with any status.
NextStatus ==
  \/ \E init \in InitHeaders : Issue("a", init)
  \/ \E s \in StatusCodes : NetResolve("a", s)
  \/ Steps("a")

SpecStatus == Init /\ [][NextStatus]_vars

\* An application that sets any strategy by name at any time, registered or
\* not, on a client with one caller.
NextFactory ==
  \/ \E name \in StrategyNames : SetStrategy(name)
  \/ Issue("a", NoHeaders)
  \/ Steps("a")

SpecFactory == Init /\ [][NextFactory]_vars

\* The configurations an application may hand to new Strapi(config), and how
\* it supplies the HTTP client: no factory ("none", the constructor calls
\* new HttpClient), a factory that makes a client of its own for the call
\* ("fresh"), or a factory that hands out a client the application holds
\* ("kept").
StrapiConfigs ==
  [baseURL : {Url(l, "https://a.io", t) : l, t \in 0..MaxSlashes}
               \cup {Url(0, "ftp://b.io", 0), Url(0, "nonsense", 0)},
   auth : {Undefined} \cup [strategy : StrategyNames, options : AuthOptions]]
Factories == {"none", "fresh", "kept"}

\* Strapi.initHttp: the entries it registers on a new client.
InitHttp ==
  [request |-> <<Entry("setDefaultHeaders", "none")>>,
   response |-> <<Entry("transformErrors", "none")>>]

\* Strapi.initAuth, past setStrategy: the entries it adds.
InitAuth(chains) ==
  [request |-> chains.request \o <<Entry("ensurePreAuthentication", "none"),
                                    Entry("authenticateRequests", "none")>>,
   response |-> chains.response \o <<Entry("notifyFulfilled", "notifyRejected")>>]

Failed(stage, http, cfg, factory) ==
  [made |-> FALSE, raised |-> "StrapiInitializationError", stage |-> stage,
   http |-> http, asked |-> cfg, factory |-> factory]

\* new Strapi(config, validator, authManager, httpClientFactory), start to
\* end: preflightValidation, the HTTP client, initHttp, initAuth. A raise
\* leaves behind what the steps before it did; `http` tells whether the HTTP
\* client can still be reached (through the client, or through the factory
\* that holds it).
Construct(cfg, factory) ==
  /\ strapi = NoStrapi
  /\ LET thrown == ValidateThrows(cfg.baseURL)
         http == HttpClientConstructor([baseURL |-> cfg.baseURL, timeout |-> Undefined,
                                        headers |-> Undefined], "HttpClient")
         asked == cfg.auth # Undefined
         made == IF asked THEN FactoryCreateWith(cfg.auth.strategy, cfg.auth.options)
                 ELSE NoCreate
     IN IF thrown # "none" \/ http.raised
          THEN /\ strapi' = Failed(IF thrown # "none" THEN "preflightValidation"
                                   ELSE "HttpClient", FALSE, cfg, factory)
               /\ UNCHANGED <<config, reqHandlers, respHandlers, created,
                              providers, authProvider>>
          ELSE /\ config' = http.client
               /\ created' = made
               /\ IF made.raised
                    THEN /\ strapi' = Failed("initAuth", factory = "kept", cfg, factory)
                         /\ reqHandlers' = InitHttp.request
                         /\ respHandlers' = InitHttp.response
                         /\ UNCHANGED <<providers, authProvider>>
                    ELSE /\ strapi' = [made |-> TRUE, raised |-> "none", stage |-> "none",
                                       http |-> TRUE, asked |-> cfg, factory |-> factory]
                         /\ reqHandlers' = InitAuth(InitHttp).request
                         /\ respHandlers' = InitAuth(InitHttp).response
                         /\ IF asked
                              THEN /\ providers' = Append(providers, made.provider)
                                   /\ authProvider' = Len(providers) + 1
                              ELSE UNCHANGED <<providers, authProvider>>
  /\ UNCHANGED <<fork, setterThrew>>
  /\ UNCHANGED <<stack, isAuthenticated, last401, authSince401, authedBy>>

\* An application that constructs a Strapi client from any configuration
\* and, once it has one, sends requests through it. Before the call there
\* are an auth manager without a strategy and no interceptors.
InitConstruct == InitManager

NextConstruct ==
  \/ \E cfg \in StrapiConfigs, factory \in Factories : Construct(cfg, factory)
  \/ strapi.made /\ Issue("a", NoHeaders)
  \/ Steps("a")

SpecConstruct == InitConstruct /\ [][NextConstruct]_vars

\* An application that requests any path and changes the base URL between
\* requests.
NextPath ==
  \/ \E path \in Paths : Request("a", path, NoHeaders)
  \/ \E url \in Urls : SetBaseURL("parent", url)
  \/ Steps("a")

SpecPath == Init /\ [][NextPath]_vars

\* A call of AuthManager.authenticate is in progress for caller u.
InHandshake(u) ==
  \E i \in 1..Len(stack[u]) :
    stack[u][i].kind = "authenticate" /\ stack[u][i].pc # "settled"

\* Two handshakes that overlap, started in a known order: caller a issues a
\* request while b is idle, and the application calls authenticate for b
\* only while the handshake of a's request is in progress. Both then go on
\* in any order.
NextRace ==
  \/ ~Busy("b") /\ Issue("a", NoHeaders)
  \/ InHandshake("a") /\ DirectAuthenticate("b", FALSE)
  \/ \E t \in Tasks : Steps(t)

SpecRace == Init /\ [][NextRace]_vars

\* The steps in which a handler or a call that was waiting for nothing but
\* its turn goes on: the interceptors of the client, the continuations of
\* authenticate after its provider or its post settled, and the settling of
\* request() towards its caller.
Continues(t) ==
  \/ \E createRaises \in BOOLEAN : PreAuth(t, createRaises)
  \/ AuthenticateRequests(t)
  \/ Notify(t)
  \/ Complete(t)
  \/ HandshakeResponse(t)
  \/ AuthSucceed(t)
  \/ AuthFail(t)
  \/ AuthReturn(t)

\* One caller of a client whose handlers all return or raise and whose armed
\* timers fire unless cleared. Nothing makes the network answer, and nothing
\* makes the body of a handshake response arrive: the answer of fetch and the
\* settling of response.json() are steps that may never happen.
NextLive ==
  \/ Issue("a", NoHeaders)
  \/ Steps("a")
  \/ Timeout("a")

SpecLive ==
  /\ Init
  /\ [][NextLive]_vars
  /\ WF_vars(Continues("a"))
  /\ WF_vars(Timeout("a"))

\* ============================================================== properties
\* Every suspended call of every caller, and the request() calls among them.
Frames == UNION {{stack[t][i] : i \in 1..Len(stack[t])} : t \in Tasks}
RequestFrames == {f \in Frames : f.kind = "request"}
AuthFrames == {f \in Frames : f.kind = "authenticate"}

IsPrefix(a, b) == Len(a) <= Len(b) /\ SubSeq(b, 1, Len(a)) = a

\* What one successful request() does, in order, with n request handlers and
\* m response handlers: every request handler once, the network call, every
\* response handler once, the return.
ExpectedLog(n, m) ==
  [i \in 1..n |-> <<"req", i>>] \o << <<"net", n>>, <<"netdone", 0>> >>
    \o [i \in 1..m |-> <<"resp", i>>] \o << <<"ret", m>> >>

\* C1: within one request() call the phases are strictly sequential: every
\* request handler runs before the network call, the network call ends before
\* the first response handler runs, and on the success path no phase is
\* skipped or repeated.
PhasesSequential ==
  \A f \in RequestFrames :
    /\ \E n \in 0..Len(ReqChain(f)), m \in 0..Len(RespChain(f)) :
         IsPrefix(f.log, ExpectedLog(n, m))
    /\ f.pc = "fetch" =>
         f.log = SubSeq(ExpectedLog(Len(f.log) - 1, 0), 1, Len(f.log))
    /\ f.pc = "respExec" =>
         \E i \in 1..Len(f.log) : f.log[i] = <<"netdone", 0>>
    /\ (f.pc = "settled" /\ f.result = "resolved") =>
         \E n \in 0..Len(ReqChain(f)), m \in 0..Len(RespChain(f)) :
           f.log = ExpectedLog(n, m)

\* A request on the client resolved after handlers registered by the
\* application ran in both phases.
PhasesSequentialWitness ==
  \E f \in RequestFrames :
    /\ f.client = "main" /\ f.pc = "settled" /\ f.result = "resolved"
    /\ Len(reqHandlers) > Len(DefaultRequestHandlers)
    /\ Len(respHandlers) > Len(DefaultResponseHandlers)
    /\ f.log = ExpectedLog(Len(reqHandlers), Len(respHandlers))

\* C2: when the network call or the response-phase execute raises, request()
\* has cancelled the timer, has passed the error through
\* interceptors.response.reject, and rejects with whatever reject produced
\* (returned or raised); it never resolves after such a failure.
FailureRejects ==
  \A f \in RequestFrames :
    f.failed =>
      /\ f.timer # "armed" /\ f.clears >= 1
      /\ f.pc \in {"reject", "settled"}
      /\ f.result # "resolved"
      /\ f.pc = "settled" =>
           /\ f.result = "rejected"
           /\ f.val = Reject(SubSeq(RespChain(f), 1, f.nRej), 1, f.err0).val

\* A request whose timer fired rejected with the value a rejected handler
\* registered by the application substituted for the error.
FailureRejectsWitness ==
  \E f \in RequestFrames :
    /\ f.failed /\ f.pc = "settled" /\ f.result = "rejected"
    /\ f.timer = "fired"
    /\ f.val = Recovered /\ f.val # f.err0

\* The step of caller t is a call of notify() by notifyOnUnauthorizedResponse.
NotifyStep(t) == Busy(t) /\ Tells(Top(t)) /\ stack'[t] # stack[t]

\* C3: once a 401 response has flowed through the response chain of the client,
\* where notifyOnUnauthorizedResponse is registered, the handler has called
\* handleUnauthorizedError by the time request() rejects, and that call leaves
\* isAuthenticated false whatever it was before.
UnauthorizedResets ==
  /\ [](\A f \in RequestFrames :
          (f.client = "main" /\ f.pc = "settled" /\ f.err0.status = UNAUTHORIZED)
            => f.notified)
  /\ [][\A t \in Tasks : NotifyStep(t) => ~isAuthenticated']_vars

\* A request was rejected with a 401 on a client that was authenticated when
\* the 401 arrived, and the client no longer is.
UnauthorizedResetsWitness ==
  \E f \in RequestFrames :
    /\ f.client = "main" /\ f.pc = "settled" /\ f.result = "rejected"
    /\ f.err0.status = UNAUTHORIZED
    /\ f.notified /\ f.authBefore
    /\ ~isAuthenticated

\* C4 as stated: a request issued next after a request ended with a 401, on a
\* client with a strategy, has called authManager.authenticate by the time it
\* starts its own network call.
NextRequestAuthenticates ==
  \A f \in RequestFrames :
    (f.after401 /\ f.pc = "fetch") => f.authCalled

\* C4 as it holds: such a request has called authManager.authenticate by the
\* time it starts its own network call, unless an authenticate call of another
\* caller completed successfully after the 401 was notified and before this
\* request's pre-authentication check.
NextRequestAuthenticatesUnlessRestored ==
  \A f \in RequestFrames :
    (f.after401 /\ f.pc = "fetch") => (f.authCalled \/ f.okSince)

\* The request issued after a 401 is at its network call, its handshake done.
NextRequestAuthenticatesWitness ==
  \E f \in RequestFrames :
    f.after401 /\ f.pc = "fetch" /\ f.authCalled /\ ~f.okSince

\* The next step of caller t is the check of ensurePreAuthentication.
AtPreAuth(t) ==
  /\ AtRequest(t, "reqExec")
  /\ ~ExecuteDone(Top(t).idx, ReqChain(Top(t)))
  /\ ReqChain(Top(t))[Top(t).idx].ful = "ensurePreAuthentication"

\* C5: ensurePreAuthentication calls authManager.authenticate exactly when a
\* strategy is configured and isAuthenticated is false at that moment;
\* otherwise no handshake starts and the request passes on unchanged.
PreAuthExactly ==
  [][\A t \in Tasks :
       (AtPreAuth(t) /\ stack'[t] # stack[t]) =>
         LET called == Len(stack'[t]) > Len(stack[t])
             after == stack'[t][Depth(t)]
         IN /\ called <=> (Strategy # "undefined" /\ ~isAuthenticated)
            /\ called => /\ stack'[t][Depth(t) + 1].kind = "authenticate"
                         /\ after.authCalled
            /\ ~called => /\ Len(stack'[t]) = Len(stack[t])
                          /\ isAuthenticated' = isAuthenticated
                          /\ providers' = providers
                          /\ after.req = Top(t).req
                          /\ ~after.authCalled
                          /\ after.idx > Top(t).idx]_vars

\* A handshake that ensurePreAuthentication started is in progress.
PreAuthExactlyWitness ==
  \E t \in Tasks :
    /\ Depth(t) >= 2
    /\ stack[t][1].kind = "request" /\ stack[t][1].authCalled
    /\ stack[t][1].pc = "reqExec"
    /\ stack[t][2].kind = "authenticate" /\ stack[t][2].pc # "settled"

\* The step of caller t settles a call of AuthManager.authenticate.
AuthSettles(t) ==
  /\ stack'[t] # stack[t]
  /\ Len(stack'[t]) > 0
  /\ stack'[t][Len(stack'[t])].kind = "authenticate"
  /\ stack'[t][Len(stack'[t])].pc = "settled"

\* The step of caller t resumes ensurePreAuthentication after an authenticate
\* call that did not succeed.
FailedPreflightReturns(t) ==
  /\ AtAuth(t, "settled") /\ Depth(t) >= 2
  /\ Top(t).how # "providerOk"
  /\ stack'[t] # stack[t]

AuthenticateNeverRaises ==
  /\ [](\A a \in AuthFrames :
          /\ a.result # "rejected"
          /\ a.pc = "settled" => (a.result = "resolved" /\ a.how # "pending"))
  /\ [][\A t \in Tasks :
          AuthSettles(t) =>
            LET a == stack'[t][Len(stack'[t])]
            IN /\ (a.prov = NoProvider) <=> (a.how = "noProvider")
               /\ a.how = "noProvider" => ~isAuthenticated'
               /\ a.how = "providerOk" => isAuthenticated'
               /\ a.how \in {"createRaised", "providerRaised"} => ~isAuthenticated']_vars

\* An authenticate call returned normally although http.create raised.
AuthenticateNeverRaisesWitness ==
  \E a \in AuthFrames :
    /\ a.pc = "settled" /\ a.result = "resolved"
    /\ a.how = "createRaised" /\ a.prov # NoProvider
    /\ ~isAuthenticated

\* The step is a call of setStrategy.
SetStrategyStep == Len(providers') > Len(providers)

\* The step of caller t is a call of authenticateRequest by the interceptor.
AuthenticateRequestStep(t) ==
  /\ AtRequest(t, "reqExec")
  /\ ~ExecuteDone(Top(t).idx, ReqChain(Top(t)))
  /\ ReqChain(Top(t))[Top(t).idx].ful = "authenticateRequests"
  /\ stack'[t] # stack[t]

\* C8: isAuthenticated is false initially, changes to true only at the
\* completion of a successful authenticate call, and is false after every
\* handleUnauthorizedError and after every failed authenticate; setStrategy and
\* authenticateRequest leave it as it is.
AuthFlagDiscipline ==
  /\ ~isAuthenticated
  /\ [][/\ (isAuthenticated' /\ ~isAuthenticated) =>
             \E t \in Tasks :
               AuthSettles(t) /\ stack'[t][Len(stack'[t])].how = "providerOk"
        /\ \A t \in Tasks :
             /\ NotifyStep(t) => ~isAuthenticated'
             /\ (AuthSettles(t) /\ stack'[t][Len(stack'[t])].how # "providerOk")
                  => ~isAuthenticated'
             /\ AuthenticateRequestStep(t) => isAuthenticated' = isAuthenticated
        /\ SetStrategyStep => isAuthenticated' = isAuthenticated]_vars

\* The manager is authenticated and the authenticate call that made it so has
\* just completed.
AuthFlagDisciplineWitness ==
  /\ isAuthenticated
  /\ \E a \in AuthFrames : a.pc = "settled" /\ a.how = "providerOk"

\* C9: whenever isAuthenticated is true, the provider set on the manager is
\* the one whose authenticate succeeded last and it has what it needs to
\* authenticate requests, across setStrategy and across authenticate calls in
\* flight when the provider is replaced.
AuthenticatedProviderIsCurrent ==
  isAuthenticated =>
    /\ authProvider # NoProvider
    /\ authProvider = authedBy
    /\ ProviderHeaders(authProvider) # "none"

\* C10: the handshake never re-enters the authentication flow: its request
\* runs on a client without interceptors, so it runs no pre-authentication
\* check, gets no Authorization header and notifies no 401, and a request has
\* at most one authenticate call below it.
HandshakeDoesNotReenter ==
  /\ \A t \in Tasks :
       /\ Depth(t) <= 3
       /\ Cardinality({i \in 1..Depth(t) : stack[t][i].kind = "authenticate"}) <= 1
  /\ \A f \in RequestFrames :
       f.client = "fork" =>
         /\ f.reqH = <<>> /\ f.respH = <<>>
         /\ ~f.authCalled /\ ~f.notified
         /\ f.req.auth = <<>>
         /\ \A i \in 1..Len(f.log) : f.log[i][1] \notin {"req", "resp"}

\* The credential POST of a handshake started by a request is in flight.
HandshakeDoesNotReenterWitness ==
  \E t \in Tasks :
    /\ Depth(t) = 3
    /\ stack[t][1].kind = "request" /\ stack[t][1].authCalled
    /\ stack[t][2].kind = "authenticate"
    /\ Top(t).kind = "request" /\ Top(t).client = "fork" /\ Top(t).pc = "fetch"

\* The network calls request() f has started.
NetCalls(f) == Cardinality({i \in 1..Len(f.log) : f.log[i][1] = "net"})

\* C11: a request() call performs at most one network call for its own
\* request: after a network error, a timeout, a non-2xx status or a 401 it is
\* in its reject pass or settled with that one call behind it, and a 401 has
\* only made the handler notify the manager.
SingleAttempt ==
  \A f \in RequestFrames :
    /\ NetCalls(f) <= 1
    /\ (f.pc \in {"fetch", "respExec", "reject"} \/ f.result = "resolved")
         => NetCalls(f) = 1
    /\ (f.failed \/ f.notified) => (NetCalls(f) = 1 /\ f.pc \in {"reject", "settled"})

\* A request rejected after a 401 with one network call made.
SingleAttemptWitness ==
  \E f \in RequestFrames :
    /\ f.client = "main" /\ f.pc = "settled" /\ f.result = "rejected"
    /\ f.notified /\ f.err0.status = UNAUTHORIZED
    /\ NetCalls(f) = 1

\* C12: when the timer of a request fires before its network call resolves,
\* the controller aborts the call, the abort error flows through
\* interceptors.response.reject and request() rejects with what reject made of
\* it; clearTimeout has been called exactly once and the timer fired once.
TimeoutRejects ==
  \A f \in RequestFrames :
    f.timer = "fired" =>
      /\ f.failed /\ f.raisedBy \in {"fetch", "reject"}
      /\ f.err0 = Error("AbortError", 0)
      /\ f.arms = 1 /\ f.clears = 1
      /\ f.pc \in {"reject", "settled"}
      /\ f.pc = "settled" =>
           /\ f.result = "rejected"
           /\ f.val = Reject(SubSeq(RespChain(f), 1, f.nRej), 1,
                             Error("AbortError", 0)).val

\* A request rejected with the abort error after its timer fired.
TimeoutRejectsWitness ==
  \E f \in RequestFrames :
    /\ f.client = "main" /\ f.timer = "fired"
    /\ f.pc = "settled" /\ f.result = "rejected"
    /\ f.val = Error("AbortError", 0)
    /\ f.clears = 1

ControllerSignalWins ==
  /\ [](\A f \in RequestFrames :
          NetCalls(f) >= 1 => f.req.signal = "controller")
  /\ [][\A t \in Tasks :
          (/\ AtRequest(t, "fetch")
           /\ Len(stack'[t]) = Depth(t)
           /\ stack'[t][Depth(t)].timer = "fired")
            => /\ stack'[t][Depth(t)].failed
               /\ stack'[t][Depth(t)].pc # "fetch"]_vars

\* The timer cancelled a call whose processed request carried a signal of the
\* caller or of a request handler.
ControllerSignalWinsWitness ==
  \E f \in RequestFrames :
    /\ f.sigIn \in {"caller", "interceptor"}
    /\ f.timer = "fired" /\ f.failed
    /\ f.req.signal = "controller"

\* ------------------------------------------------- the manager on its own
\* The marks the fulfilled (rejected) handlers of a chain leave, entry by entry.
FulfilledMark(entry) ==
  IF entry.ful = "tag1" THEN <<"f1">> ELSE IF entry.ful = "tag2" THEN <<"f2">> ELSE <<>>
RejectedMark(entry) ==
  IF entry.rej = "tag1" THEN <<"r1">> ELSE IF entry.rej = "tag2" THEN <<"r2">> ELSE <<>>

RECURSIVE FulfilledMarks(_)
FulfilledMarks(handlers) ==
  IF handlers = <<>> THEN <<>>
  ELSE FulfilledMark(Head(handlers)) \o FulfilledMarks(Tail(handlers))

RECURSIVE RejectedMarks(_)
RejectedMarks(handlers) ==
  IF handlers = <<>> THEN <<>>
  ELSE RejectedMark(Head(handlers)) \o RejectedMarks(Tail(handlers))

\* Caller t calls execute (reject) on the manager in this step.
CallsExecute(t) == ~Busy(t) /\ Len(stack'[t]) = 1 /\ stack'[t][1].kind = "execute"
CallsReject(t) == ~Busy(t) /\ Len(stack'[t]) = 1 /\ stack'[t][1].kind = "reject"

NoFulfilledRaises(handlers) == \A i \in 1..Len(handlers) : handlers[i].ful # "throw"
NoRejectedRaises(handlers) == \A i \in 1..Len(handlers) : handlers[i].rej # "throw"

ComposedFulfilled(t) ==
  LET f == stack'[t][1]
  IN /\ f.pc = "settled"
     /\ f.result = "resolved"
     /\ f.val = [f.arg EXCEPT !.tags = @ \o FulfilledMarks(respHandlers)]
     /\ f.log = [i \in 1..Len(respHandlers) |-> <<"resp", i>>]
                  \o <<(<<"ret", Len(respHandlers)>>)>>

\* C15: a call of execute on a chain none of whose fulfilled handlers raises
\* resolves with the initial value carrying the marks of the fulfilled handlers
\* in registration order, each handler having been given what the step before
\* it returned; an entry without a fulfilled handler adds nothing, and every
\* entry is passed exactly once, in order.
ExecuteComposes ==
  [][\A t \in Tasks :
       (CallsExecute(t) /\ NoFulfilledRaises(respHandlers)) => ComposedFulfilled(t)]_vars

ExecuteComposesWitness ==
  \E f \in Frames :
    /\ f.kind = "execute"
    /\ f.result = "resolved"
    /\ f.val.tags = <<"f1", "f2">>
    /\ Len(f.log) = 4
    /\ NoFulfilledRaises(respHandlers)

\* The entries whose fulfilled handler raises: without a rejected handler of
\* their own, and with one that returns.
Unhandled(handlers) ==
  {i \in 1..Len(handlers) : handlers[i].ful = "throw" /\ handlers[i].rej = "none"}
Handled(handlers) ==
  {i \in 1..Len(handlers) : handlers[i].ful = "throw" /\ handlers[i].rej \in {"tag1", "tag2"}}
First(S) == CHOOSE i \in S : \A j \in S : i <= j
Last(S) == CHOOSE i \in S : \A j \in S : j <= i

\* execute stopped at entry k with the error raised there, untouched.
PropagatedAt(f, k) ==
  /\ f.pc = "settled"
  /\ f.result = "rejected"
  /\ f.val = Error("CustomError", 0)
  /\ f.idx = k
  /\ f.log = [i \in 1..(k - 1) |-> <<"resp", i>>]

\* execute went on after entry k from what that entry's rejected handler
\* returned for the error, through every later entry.
ContinuedFrom(f, k, handlers) ==
  /\ f.pc = "settled"
  /\ f.result = "resolved"
  /\ f.val = [Error("CustomError", 0) EXCEPT
               !.tags = RejectedMark(handlers[k])
                          \o FulfilledMarks(SubSeq(handlers, k + 1, Len(handlers)))]
  /\ f.log = [i \in 1..Len(handlers) |-> <<"resp", i>>] \o <<(<<"ret", Len(handlers)>>)>>

RaiseHandledBySameEntry(t) ==
  LET f == stack'[t][1]
  IN IF Unhandled(respHandlers) # {}
       THEN PropagatedAt(f, First(Unhandled(respHandlers)))
       ELSE Handled(respHandlers) # {}
              => ContinuedFrom(f, Last(Handled(respHandlers)), respHandlers)

\* C16: in a call of execute, the first entry whose fulfilled handler raises
\* and that has no rejected handler ends the call with that error, no later
\* entry being passed; an entry whose fulfilled handler raises and that has a
\* rejected handler hands the error to it, and the call goes on with the next
\* entry from what that handler returned.
ExecuteRecoversPerEntry ==
  [][\A t \in Tasks : CallsExecute(t) => RaiseHandledBySameEntry(t)]_vars

ExecuteRecoversPerEntryWitness ==
  /\ Busy("a") /\ Busy("b")
  /\ Top("a").kind = "execute" /\ Top("a").result = "resolved"
  /\ Top("a").val.kind = "CustomError" /\ Top("a").val.tags = <<"r1", "f1">>
  /\ Top("b").kind = "execute" /\ Top("b").result = "rejected"
  /\ Top("b").idx = 3 /\ Len(respHandlers) = 3

FoldedRejected(t) ==
  LET f == stack'[t][1]
  IN /\ f.pc = "settled"
     /\ f.result = "resolved"
     /\ f.val = [f.arg EXCEPT !.tags = @ \o RejectedMarks(respHandlers)]
     /\ f.idx = Len(respHandlers) + 1
     /\ f.log = <<>>

\* C17: a call of reject on a chain none of whose rejected handlers raises
\* returns the initial error carrying the marks of the rejected handlers in
\* registration order and of nothing else: every entry is passed once, an
\* entry without a rejected handler adds nothing, and no fulfilled handler
\* runs, whether it would mark the value or raise.
RejectFoldsRejectedOnly ==
  [][\A t \in Tasks :
       (CallsReject(t) /\ NoRejectedRaises(respHandlers)) => FoldedRejected(t)]_vars

RejectFoldsRejectedOnlyWitness ==
  \E f \in Frames :
    /\ f.kind = "reject"
    /\ f.result = "resolved"
    /\ f.val = [Error("Error", 0) EXCEPT !.tags = <<"r1", "r2">>]
    /\ respHandlers = <<Entry("tag2", "tag1"), Entry("throw", "none"), Entry("none", "tag2")>>

\* ------------------------------------------------------ the client and its fork
Chains == {"request", "response"}
ParentEntries(which) ==
  IF which = "request" THEN ParentRequestEntries ELSE ParentResponseEntries
Inherited(which) == IF fork.inherit THEN fork.from[which] ELSE <<>>

\* create() returned a fork in this step.
CreatesFork == fork' # fork /\ fork'.made /\ \A which \in Chains : fork'.own[which] = <<>>

\* Each chain of the fork is what the parent's chain was at the fork followed
\* by what was registered through the fork, and each chain of the parent is
\* that same chain followed by what was registered on the parent since.
ChainsApart ==
  fork.made =>
    \A which \in Chains :
      /\ ForkChain(which) = Inherited(which) \o fork.own[which]
      /\ IsPrefix(fork.from[which], ParentChain(which))
      /\ \A i \in 1..Len(ParentChain(which)) : ParentChain(which)[i] \in ParentEntries(which)

ForkStartsAsParent ==
  (CreatesFork /\ fork'.inherit) =>
    /\ ForkChain("request")' = reqHandlers /\ ForkChain("response")' = respHandlers
    /\ reqHandlers' = reqHandlers /\ respHandlers' = respHandlers

\* What a call of execute started in this step on the response chain of the
\* parent, and of the fork, has run.
RunsOwnChain(t) ==
  (~Busy(t) /\ Len(stack'[t]) = 1) =>
    LET f == stack'[t][1]
    IN IF f.client = "main"
         THEN /\ f.val.tags = FulfilledMarks(respHandlers)
              /\ \A i \in 1..Len(f.val.tags) : f.val.tags[i] = "f1"
         ELSE f.val.tags = FulfilledMarks(Inherited("response"))
                             \o [i \in 1..Len(fork.own.response) |-> "f2"]

\* C18: a fork created with the interceptors inherited starts with exactly
\* the parent's request and response entries, in order; from then on each
\* chain of the fork is that start followed by what was registered through
\* the fork, each chain of the parent holds only what was registered on the
\* parent, and executing either response chain runs that chain's handlers
\* and no other.
ForkIsolation ==
  /\ []ChainsApart
  /\ [][ForkStartsAsParent /\ RunsOwnChain("a")]_vars

ForkIsolationWitness ==
  /\ fork.made /\ fork.inherit
  /\ fork.from.response = <<Entry("tag1", "none"), Entry("pass", "none")>>
  /\ fork.from.request = <<Entry("pass", "none")>>
  /\ fork.own.request = <<Entry("signal", "none")>>
  /\ fork.own.response = <<Entry("tag2", "none")>>
  /\ Len(respHandlers) = 3 /\ Len(reqHandlers) = 2
  /\ Busy("a") /\ Top("a").client = "fork" /\ Top("a").val.tags = <<"f1", "f2">>

\* create() was called in this step: it returned a fork or raised.
CreateStep == fork' # fork /\ (fork'.raised \/ (fork'.made /\ ~fork'.set))

\* The value create() is to give a property: the override, or the parent's.
Given(over, current) == IF over = Undefined THEN current ELSE over
Stripped(url) == Url(0, url.core, 0)

ForkAsOverridden ==
  CreateStep =>
    /\ fork'.made
    /\ fork'.cls = config.cls
    /\ fork'.baseURL = Given(fork'.over.baseURL, config.baseURL)
    /\ fork'.timeout = Given(fork'.over.timeout, config.timeout)
    /\ fork'.headers = Given(fork'.over.headers, config.headers)
    /\ config' = config

ForkAsOverriddenAndFormatted ==
  CreateStep =>
    LET baseURL == IF fork'.over.baseURL = Undefined THEN config.baseURL
                   ELSE Stripped(fork'.over.baseURL)
    IN /\ config' = config
       /\ IF baseURL.core \in {"https://a.io", "https://b.io"}
            THEN /\ fork'.made
                 /\ fork'.cls = config.cls
                 /\ fork'.baseURL = baseURL
                 /\ fork'.timeout = Given(fork'.over.timeout, config.timeout)
                 /\ fork'.headers = Given(fork'.over.headers, config.headers)
            ELSE fork'.raised

\* No call changes the configuration of both clients, and a setter of the
\* fork changes nothing but the fork.
SettersApart ==
  /\ (fork' # fork) => (config' = config)
  /\ (config' # config) => (fork' = fork)

\* C19 as stated: every create() returns a client of the parent's class
\* whose baseURL, timeout and headers are the overrides given and the parent's
\* values otherwise, and no later setter call changes both clients.
CreateKeepsOrOverrides == [][ForkAsOverridden /\ SettersApart]_vars

\* C19, amended: create() returns a client of the parent's class whose timeout
\* and headers are the overrides given and the parent's values otherwise and
\* whose baseURL is the override with its leading and trailing slashes
\* removed, or the parent's, when that is an http(s) URL, and raises without
\* returning a client when it is not; no later setter call changes both clients.
CreateKeepsOrOverridesFormatted == [][ForkAsOverriddenAndFormatted /\ SettersApart]_vars

CreateKeepsOrOverridesWitness ==
  /\ fork.made /\ fork.set
  /\ fork.cls = "MockHttpClient" /\ config.cls = "MockHttpClient"
  /\ fork.over.baseURL = Url(1, "https://b.io", 1) /\ fork.baseURL = Url(0, "https://b.io", 0)
  /\ fork.over.timeout = Undefined /\ fork.timeout = Num(0)
  /\ fork.over.headers = Headers({"Accept"}) /\ fork.headers = Headers({"Accept"})
  /\ config.timeout = Num(DEFAULT_HTTP_TIMEOUT_MS) /\ config.baseURL = Url(0, "https://a.io", 0)

\* ------------------------------------------------------ concurrent handshakes
\* A call of AuthManager.authenticate is in progress for caller u.
Authenticating(u) ==
  \E i \in 1..Len(stack[u]) : stack[u][i].kind = "authenticate" /\ stack[u][i].pc # "settled"

\* Caller t passes the check of ensurePreAuthentication in this step, with a
\* strategy set and isAuthenticated false, while caller u is authenticating.
ChecksDuring(t, u) ==
  /\ AtPreAuth(t)
  /\ stack'[t] # stack[t]
  /\ Strategy # "undefined"
  /\ ~isAuthenticated
  /\ Authenticating(u)

\* C20: a request that reaches the check of ensurePreAuthentication with a
\* strategy set and isAuthenticated false starts an authenticate call of its
\* own even while another caller's authenticate call is in progress, and
\* leaves that call as it is: nothing joins or delays the second handshake.
HandshakesNotDeduplicated ==
  [][\A t \in Tasks : \A u \in Tasks \ {t} :
       ChecksDuring(t, u) =>
         /\ Len(stack'[t]) > Len(stack[t])
         /\ stack'[t][Depth(t) + 1].kind = "authenticate"
         /\ stack'[t][Depth(t)].authCalled
         /\ stack'[u] = stack[u]]_vars

\* Both callers' requests have started a handshake and both handshake
\* requests are at their network call.
HandshakesNotDeduplicatedWitness ==
  /\ ~isAuthenticated
  /\ \A t \in Tasks :
       /\ Depth(t) = 3
       /\ stack[t][1].kind = "request" /\ stack[t][1].authCalled
       /\ stack[t][1].pc = "reqExec"
       /\ stack[t][2].kind = "authenticate"
       /\ stack[t][3].kind = "request" /\ stack[t][3].client = "fork"
       /\ stack[t][3].pc = "fetch"

\* ------------------------------------------------------ headers of a request
\* Where the constructor registers the two auth request handlers.
IndexOf(handlers, h) == CHOOSE i \in 1..Len(handlers) : handlers[i].ful = h
PreAuthIndex == IndexOf(DefaultRequestHandlers, "ensurePreAuthentication")
InjectIndex == IndexOf(DefaultRequestHandlers, "authenticateRequests")
Logged(f, e) == \E i \in 1..Len(f.log) : f.log[i] = e
MainRequests == {f \in RequestFrames : f.client = "main"}

\* A call started by the request at the bottom of t's stack is in progress.
InPreflight(t) == Depth(t) >= 2 /\ stack[t][1].kind = "request"

HeadersOf(req) == [ctype |-> req.ctype, auth |-> req.auth, accept |-> req.accept]
BearerValues == {"Bearer jwt", "Bearer api-token"}

\* After the step the request carries exactly one Authorization value, the
\* provider's.
Injected(t) ==
  \E v \in BearerValues : stack'[t][Depth(t)].req.auth = <<v>>
Untouched(t) == HeadersOf(stack'[t][Depth(t)].req) = HeadersOf(Top(t).req)

\* C22 as stated: a call of authenticateRequest by the interceptor leaves the
\* request with the provider's Authorization header exactly when a provider
\* is set, and leaves its headers as they were when none is set.
InjectsIffProvider ==
  [][AuthenticateRequestStep("a") =>
       /\ Injected("a") <=> (authProvider # NoProvider)
       /\ (authProvider = NoProvider) => Untouched("a")]_vars

\* C22, amended: the call leaves the request with the provider's
\* Authorization header exactly when a provider is set and has headers (a
\* credential provider without a token has none), whatever isAuthenticated
\* is; otherwise the request's headers are left as they were, and the other
\* headers are left as they were in every case.
InjectsIffProviderHasHeaders ==
  [][AuthenticateRequestStep("a") =>
       /\ Injected("a") <=> (authProvider # NoProvider /\ ProviderHeaders(authProvider) # "none")
       /\ ~Injected("a") => Untouched("a")
       /\ stack'["a"][Depth("a")].req.ctype = Top("a").req.ctype
       /\ stack'["a"][Depth("a")].req.accept = Top("a").req.accept]_vars

\* A request that was given the provider's header while isAuthenticated was
\* false is at its network call.
InjectsIffProviderWitness ==
  \E f \in MainRequests :
    /\ f.pc = "fetch"
    /\ f.flagAtInject = "unauthenticated"
    /\ f.req.auth = <<"Bearer jwt">>

HasHeaders == authProvider # NoProvider /\ ProviderHeaders(authProvider) # "none"
Twice(req) == AuthenticateRequest(AuthenticateRequest(req))

\* C23: authenticateRequest applied again to any request of the client, with
\* the same provider, yields the headers one application yields, and for the
\* Authorization key of the provider's headers the value after a call is the
\* provider's alone, whatever the caller or the static client headers had
\* put there.
AuthenticateRequestIdempotent ==
  /\ [](\A f \in MainRequests :
          /\ Twice(f.req) = AuthenticateRequest(f.req)
          /\ Twice(Twice(f.req)) = AuthenticateRequest(f.req)
          /\ HasHeaders =>
               AuthenticateRequest(f.req).auth = <<ProviderHeaders(authProvider)>>)
  /\ [][AuthenticateRequestStep("a") /\ HasHeaders =>
          stack'["a"][Depth("a")].req.auth = <<ProviderHeaders(authProvider)>>]_vars

\* A request whose caller and whose client both set Authorization has passed
\* the injection and carries the provider's value only.
AuthenticateRequestIdempotentWitness ==
  \E f \in MainRequests :
    /\ f.init.auth = <<"caller">>
    /\ "Authorization" \in config.headers.names
    /\ f.flagAtInject # "none"
    /\ f.req.auth = <<"Bearer api-token">>

HeaderFields == {Field(n) : n \in HeaderNames}
Attached(f) == AttachInstanceHeaders(f.init, config.headers.names)

\* C24: the static client headers are appended to what the caller passed in
\* init: under every name the caller's values stay, first and unchanged, and
\* the request keeps them up to the network call (Authorization until the
\* injection of the provider's header).
StaticHeadersAdditive ==
  \A f \in MainRequests :
    /\ \A h \in HeaderFields : IsPrefix(f.init[h], Attached(f)[h])
    /\ \A n \in HeaderNames :
         Attached(f)[Field(n)] =
           f.init[Field(n)] \o (IF n \in config.headers.names THEN <<"static">> ELSE <<>>)
    /\ f.req.accept = Attached(f).accept
    /\ IsPrefix(f.init.ctype, f.req.ctype)
    /\ ~Logged(f, <<"req", InjectIndex>>) => f.req.auth = Attached(f).auth

\* A request whose caller and whose client both set Accept and Content-Type
\* has reached its network call with the caller's values still in place.
StaticHeadersAdditiveWitness ==
  \E f \in MainRequests :
    /\ f.pc = "fetch"
    /\ f.init.accept = <<"caller">>
    /\ f.req.accept = <<"caller", "static">>
    /\ f.req.ctype = <<"caller", "static">>

DefaultsIndex == IndexOf(DefaultRequestHandlers, "setDefaultHeaders")

\* C25: once the default-headers interceptor has run, the request has
\* Content-Type application/json exactly when it had no Content-Type before
\* (none from the caller, none from the client's static headers); otherwise
\* its Content-Type is what it was, the caller's value included; no other
\* header is touched.
DefaultContentType ==
  \A f \in MainRequests :
    /\ SetDefaultHeaders(f.req).ctype =
         (IF f.req.ctype = <<>> THEN <<"application/json">> ELSE f.req.ctype)
    /\ HeadersOf(SetDefaultHeaders(f.req)) =
         [HeadersOf(f.req) EXCEPT !.ctype = SetDefaultHeaders(f.req).ctype]
    /\ Logged(f, <<"req", DefaultsIndex>>) =>
         /\ (f.req.ctype = <<"application/json">>) <=> (Attached(f).ctype = <<>>)
         /\ Attached(f).ctype # <<>> => f.req.ctype = Attached(f).ctype
         /\ f.init.ctype # <<>> => f.req.ctype[1] = "caller"

\* Two requests past the interceptor: one given the default...
DefaultContentTypeWitness ==
  \E f \in MainRequests :
    /\ Logged(f, <<"req", DefaultsIndex>>)
    /\ f.init.ctype = <<>>
    /\ f.req.ctype = <<"application/json">>

\* ...and one that keeps the caller's Content-Type.
DefaultContentTypeKept ==
  \E f \in MainRequests :
    /\ Logged(f, <<"req", DefaultsIndex>>)
    /\ f.req.ctype = <<"caller">>

\* The error type the claim names for each status outside 2xx.
NamedError(s) ==
  IF s = 400 THEN "HTTPBadRequestError"
  ELSE IF s = 401 THEN "HTTPAuthorizationError"
  ELSE IF s = 403 THEN "HTTPForbiddenError"
  ELSE IF s = 404 THEN "HTTPNotFoundError"
  ELSE IF s = 408 THEN "HTTPTimeoutError"
  ELSE IF s = 500 THEN "HTTPInternalServerError"
  ELSE "HTTPError"
Is2xx(s) == s \in 200..299
TransformIndex == IndexOf(DefaultResponseHandlers, "transformErrors")
Payloads == {WithRequest(Response(s), r) : s \in StatusCodes, r \in InitHeaders}

\* C26: for every status the mapping returns an error, of the type named for
\* 400, 401, 403, 404, 408 and 500 and of the generic type for any other
\* status outside 2xx; the error-mapping interceptor passes a 2xx response
\* through unchanged and raises the mapped error for every other one, and
\* so does every request of the client.
MappingTotal ==
  /\ \A v \in Payloads :
       /\ MapResponseToHTTPError(v).kind = NamedError(v.status)
       /\ MapResponseToHTTPError(v).status = v.status
       /\ RespFulfilled("transformErrors", v) =
            (IF Is2xx(v.status) THEN [raised |-> FALSE, val |-> v]
             ELSE [raised |-> TRUE, val |-> MapResponseToHTTPError(v)])
  /\ \A f \in MainRequests :
       /\ f.raisedBy = "transformErrors" =>
            /\ ~Is2xx(f.err0.status)
            /\ f.err0.kind = NamedError(f.err0.status)
       /\ Logged(f, <<"resp", TransformIndex>>) =>
            f.val = WithRequest(Response(f.val.status), f.req) /\ Is2xx(f.val.status)

\* A request was answered 418 and the interceptor raised the generic error.
MappingTotalWitness ==
  \E f \in MainRequests :
    /\ f.raisedBy = "transformErrors"
    /\ f.err0.status = 418
    /\ f.err0.kind = "HTTPError"

\* A request was answered 204 and the response went through as it was.
MappingPassesWitness ==
  \E f \in MainRequests :
    /\ Logged(f, <<"resp", TransformIndex>>)
    /\ f.val.status = NO_CONTENT

Answered(f) == f.received # 0

\* C27: a request of the Strapi client with its default interceptors is
\* resolved only with the 2xx response it received; once it has received any
\* other response it is never resolved, and it settles rejected with the
\* error typed for that status, carrying the status of that response and the
\* request that was sent.
ResolvesOnly2xx ==
  \A f \in MainRequests :
    /\ f.result = "resolved" =>
         /\ f.val.kind = "Response"
         /\ Is2xx(f.val.status) /\ f.val.status = f.received
    /\ (Answered(f) /\ ~Is2xx(f.received)) =>
         /\ f.result # "resolved"
         /\ f.pc = "settled" =>
              /\ f.result = "rejected"
              /\ f.val.kind = NamedError(f.received)
              /\ f.val.status = f.received
              /\ f.val.request = f.req

\* A request with the caller's headers was answered 404 and has settled
\* rejected with the not-found error, which carries it.
ResolvesOnly2xxWitness ==
  \E f \in MainRequests :
    /\ f.pc = "settled" /\ f.result = "rejected"
    /\ f.received = NOT_FOUND
    /\ f.val.kind = "HTTPNotFoundError"
    /\ f.val.request.accept = <<"caller">>

\* The step of caller t completes an exchange of provider p: the response
\* was ok and its body held a token.
ExchangeSucceeds(t, p) ==
  /\ AtAuth(t, "json") /\ Top(t).prov = p
  /\ stack'[t] # stack[t]
  /\ stack'[t][Depth(t)].pc = "provOk"
IsCredentialProvider(ps, p) == ps[p].name = USERS_PERMISSIONS

\* C28: a credential-exchange provider has no headers when it is created,
\* its headers change only when one of its exchanges succeeds, and after
\* every exchange of its own that succeeds they are Authorization: Bearer
\* with the token of that exchange.
CredentialHeaders ==
  /\ \A p \in 1..Len(providers) :
       IsCredentialProvider(providers, p) => ProviderHeaders(p) = "none"
  /\ [][\A p \in 1..Len(providers') :
          IsCredentialProvider(providers', p) =>
            LET before == IF p <= Len(providers) THEN ProviderHeaders(p) ELSE "none"
            IN IF \E t \in Tasks : ExchangeSucceeds(t, p)
                 THEN ProviderHeaders(p)' = "Bearer jwt"
                 ELSE ProviderHeaders(p)' = before]_vars

\* One provider's exchange has just succeeded and it has its header, while
\* another credential provider, set since, still has none.
CredentialHeadersWitness ==
  \E t \in Tasks, p, q \in 1..Len(providers) :
    /\ AtAuth(t, "provOk") /\ Top(t).prov = p
    /\ ProviderHeaders(p) = "Bearer jwt"
    /\ IsCredentialProvider(providers, q) /\ ProviderHeaders(q) = "none"

\* The provider's post has settled and authenticate knows its outcome.
PostSettled(a) == a.val # NoValue
PostFailed(a) == PostSettled(a) /\ ~(a.val.kind = "Response" /\ Is2xx(a.val.status))
BodyUnusable(a) == a.body \in {"notJson", "noJwt"}
CompletedNormally(a) == a.pc = "provOk"
Raised(a) == a.pc = "provRaised"

ExchangeFrames ==
  {a \in AuthFrames : a.prov # NoProvider /\ IsCredentialProvider(providers, a.prov)}

NetworkFailureRaises ==
  \E a \in AuthFrames : a.val.kind = "NetworkError" /\ a.pc = "provRaised"
UnusableBodyRaises ==
  \E a \in AuthFrames : a.body = "noJwt" /\ a.pc = "provRaised"

\* The text names the strategy.
Names(text, name) == \E i \in 1..Len(text) : text[i] = name

\* C30: create with a name that is not registered raises an SDK-level error
\* whose message names the requested strategy, and gives no provider.
UnregisteredRaisesNamed ==
  (created.asked \notin Registry \cup {"none"}) =>
    /\ created.raised
    /\ created.error.kind = "StrapiSDKError"
    /\ Names(created.error.message, created.asked)

\* What does hold: create raises an SDK-level error, gives no provider and
\* leaves the manager's provider as it was; the text that names the strategy
\* is the error's cause, and its message is the default one.
UnregisteredRaises ==
  /\ (created.asked \notin Registry \cup {"none"}) =>
       /\ created.raised
       /\ created.error.kind = "StrapiSDKError"
       /\ Names(created.error.cause, created.asked)
       /\ created.error.message = DefaultSDKMessage
  /\ [][(created' # created /\ created'.raised) =>
          (providers' = providers /\ authProvider' = authProvider)]_vars

\* A string that parses as an absolute http(s) URL and ends in no slash.
ValidBaseURL(url) ==
  /\ url.lead = 0
  /\ url.core \in {"https://a.io", "https://b.io"}
  /\ url.trail = 0
URLErrors == {"URLParsingError", "URLProtocolValidationError"}

\* The step is a setBaseURL call that throws.
SetBaseURLThrows == setterThrew' # setterThrew /\ setterThrew' \in URLErrors

\* C31: the baseURL of the client, and of every client create() gave, is an
\* http(s) URL that parses and has no trailing slash, in every state; a
\* setBaseURL call that throws changes the baseURL of neither.
BaseURLAlwaysValid ==
  /\ [](ValidBaseURL(config.baseURL) /\ (fork.made => ValidBaseURL(fork.baseURL)))
  /\ [][SetBaseURLThrows => (config' = config /\ fork' = fork)]_vars

\* The fork was given another baseURL by setBaseURL, and a later setBaseURL
\* with a URL of a protocol that is not allowed has thrown.
BaseURLAlwaysValidWitness ==
  /\ setterThrew = "URLProtocolValidationError"
  /\ fork.made /\ fork.set
  /\ fork.baseURL = Url(0, "https://b.io", 0)
  /\ config.baseURL = Url(0, "https://a.io", 0)

\* An integer in the safe range.
SafeInteger(x) == ~x.nan /\ x.int

\* The step is a setTimeout call that throws.
SetTimeoutThrows == setterThrew' # setterThrew /\ setterThrew' = "TypeError"

\* The step is a setter call on the fork that changes its timeout.
ForkTimeoutSet ==
  fork.made /\ fork'.made /\ fork'.set /\ fork'.timeout # fork.timeout

\* C32: a setTimeout call changes the timeout of its client only to a safe
\* integer, and then returns; a call that throws throws a TypeError and
\* changes the timeout of neither client.
SetTimeoutSafeOnly ==
  [][/\ SetTimeoutThrows => (config' = config /\ fork' = fork)
     /\ (config'.timeout # config.timeout) =>
          (SafeInteger(config'.timeout) /\ setterThrew' = "none")
     /\ ForkTimeoutSet =>
          (SafeInteger(fork'.timeout) /\ setterThrew' = "none")]_vars

\* setTimeout(0) was stored by the client, and a later setTimeout has thrown
\* and left it there.
SetTimeoutSafeOnlyWitness ==
  /\ config.timeout = Num(0)
  /\ setterThrew = "TypeError"

PositiveInteger(x) == ~x.nan /\ x.int /\ x.n > 0

\* C33: the timeout of the client, and of every client create() gave, is a
\* positive integer in every state.
TimeoutAlwaysPositive ==
  /\ PositiveInteger(config.timeout)
  /\ fork.made => PositiveInteger(fork.timeout)

\* What does hold of the client's own timeout once it is constructed with
\* the default: it is a safe integer, of either sign or zero.
TimeoutAlwaysSafe == SafeInteger(config.timeout)
\* A configuration the constructor is to refuse: a base URL that does not
\* parse or whose protocol is not allowed, a strategy that is not registered,
\* options the provider does not accept.
BadConfig(cfg) ==
  \/ ~CanParse(cfg.baseURL)
  \/ cfg.baseURL.core \notin {"https://a.io", "https://b.io"}
  \/ /\ cfg.auth # Undefined
     /\ cfg.auth.strategy \notin Strategies \/ cfg.auth.options = "malformed"

ConstructionRaised == strapi.raised # "none"
ManagerUntouched == providers = <<>> /\ authProvider = NoProvider /\ ~isAuthenticated
NoNetworkActivity == \A t \in Tasks : stack[t] = <<>>
FullyConfigured ==
  reqHandlers = DefaultRequestHandlers /\ respHandlers = DefaultResponseHandlers
HttpOnlyConfigured ==
  /\ reqHandlers = <<Entry("setDefaultHeaders", "none")>>
  /\ respHandlers = <<Entry("transformErrors", "none")>>

\* C34 (as stated): after a constructor call that raised there is no client,
\* the auth manager is as before, and no HTTP client that can be reached is
\* short of the full set of interceptors.
ConstructionAllOrNothing ==
  ConstructionRaised =>
    /\ ~strapi.made
    /\ ManagerUntouched
    /\ strapi.http => FullyConfigured

\* C34 (amended): the constructor raises exactly for a bad configuration, in
\* the call itself and before any request exists; a raise gives no client
\* and leaves the auth manager without a strategy. A base URL is refused
\* before an HTTP client exists. A strategy or options are refused after
\* initHttp registered setDefaultHeaders and transformErrors on the HTTP
\* client: that client, holding just these two, can still be reached when
\* the httpClientFactory handed out a client the application holds, and
\* only then. A call that returns gives a client with all five interceptors.
ConstructionAtomicButForFactoryClient ==
  /\ ConstructionRaised =>
       /\ BadConfig(strapi.asked)
       /\ ~strapi.made
       /\ NoNetworkActivity
       /\ ManagerUntouched
       /\ strapi.stage = "preflightValidation" =>
            ~strapi.http /\ reqHandlers = <<>> /\ respHandlers = <<>>
       /\ strapi.stage = "initAuth" =>
            HttpOnlyConfigured /\ (strapi.http <=> strapi.factory = "kept")
       /\ strapi.stage \in {"preflightValidation", "initAuth"}
  /\ strapi.made =>
       /\ ~BadConfig(strapi.asked)
       /\ FullyConfigured
       /\ (strapi.asked.auth # Undefined) <=> (authProvider # NoProvider)

ConstructionAtomicButForFactoryClientWitness ==
  /\ ConstructionRaised
  /\ strapi.stage = "initAuth"
  /\ strapi.asked.auth.options = "malformed"
  /\ strapi.factory = "kept" /\ strapi.http
  /\ HttpOnlyConfigured

\* The requests in progress that were made for a path.
PathRequests == {f \in RequestFrames : f.path # Undefined}
Starts(t) == stack[t] = <<>> /\ stack'[t] # <<>>

\* The path with exactly one slash in front, otherwise as given.
OneLeadingSlash(path) ==
  IF path.core = "" THEN Url(1, "", 0) ELSE Url(1, path.core, path.trail)

\* The path with exactly one slash in front and none at its end.
OneLeadingSlashOnly(path) == Url(1, path.core, 0)

\* C35 (as stated): the URL of a request is the base URL followed by the
\* path with its leading slashes replaced by one, the rest as given.
TargetsBasePlusPath ==
  \A f \in PathRequests :
    /\ f.url.slashes = 1
    /\ f.url.rest = OneLeadingSlash(f.path).core
    /\ f.url.trail = OneLeadingSlash(f.path).trail

\* C35 (amended): the URL of a request is the base URL the client has when
\* request is called, followed by the path with exactly one slash in front
\* and with its trailing slashes removed: exactly one slash stands where the
\* two meet.
TargetsBasePlusFormattedPath ==
  /\ [](\A f \in PathRequests :
         /\ f.url.slashes = 1
         /\ f.url.rest = OneLeadingSlashOnly(f.path).core
         /\ f.url.trail = 0
         /\ f.url.base \in {"https://a.io", "https://b.io"})
  /\ [][\A t \in Tasks :
         Starts(t) => /\ stack'[t][1].url.base = config.baseURL.core
                      /\ config.baseURL.trail = 0]_vars

TargetsBasePlusFormattedPathWitness ==
  \E f \in PathRequests :
    /\ f.path = Url(3, "p", 1)
    /\ f.url = [base |-> "https://b.io", slashes |-> 1, rest |-> "p", trail |-> 0]
    /\ f.pc = "fetch"

\* A step of task t in which a handler of the application raises while the
\* request at the top of the stack is in its request phase (the call starts
\* with this step, or was waiting inside the request chain).
RaisesInRequestPhase(t) ==
  /\ stack'[t] # <<>>
  /\ LET d == Len(stack'[t])
         g == stack'[t][d]
     IN /\ g.kind = "request" /\ g.raisedBy = "throw"
        /\ \/ Len(stack[t]) < d
           \/ /\ Len(stack[t]) \in {d, d + 1}
              /\ stack[t][d].kind = "request"
              /\ stack[t][d].pc = "reqExec"

LogKinds(f) == {f.log[i][1] : i \in 1..Len(f.log)}

\* C36: when a handler of the request chain raises and its entry has no
\* rejected handler, request() rejects with what was raised; no network call
\* is made, no timer is armed or cleared, and no handler of the response
\* chain runs, fulfilled or rejected: the catch block is never entered.
RequestPhaseRaiseSkipsResponse ==
  [][\A t \in Tasks :
       RaisesInRequestPhase(t) =>
         LET g == stack'[t][Len(stack'[t])]
         IN /\ ReqChain(g)[g.idx] = Entry("throw", "none")
            /\ g.pc = "settled" /\ g.result = "rejected"
            /\ g.val = Error("CustomError", 0)
            /\ LogKinds(g) \subseteq {"req"}
            /\ g.arms = 0 /\ g.clears = 0 /\ g.timer = "none"
            /\ ~g.failed /\ g.nRej = 0]_vars

RequestPhaseRaiseSkipsResponseWitness ==
  \E f \in RequestFrames :
    /\ f.client = "main"
    /\ f.raisedBy = "throw" /\ ~f.failed /\ f.arms = 0
    /\ f.result = "rejected"
    /\ Len(f.log) = Len(DefaultRequestHandlers)
    /\ \E i \in 1..Len(respHandlers) : respHandlers[i].rej = "swap"

\* The entries of a chain that have a rejected handler, in registration order.
RECURSIVE RejectedIndices(_, _)
RejectedIndices(handlers, k) ==
  IF k > Len(handlers) THEN <<>>
  ELSE (IF handlers[k].rej = "none" THEN <<>> ELSE <<k>>)
         \o RejectedIndices(handlers, k + 1)

\* The reject pass of the request at the top of t's stack returns in this step.
RejectPassReturns(t) ==
  /\ Busy(t) /\ Top(t).kind = "request" /\ Top(t).pc # "settled"
  /\ Len(stack'[t]) = Depth(t)
  /\ stack'[t][Depth(t)].pc = "settled"
  /\ stack'[t][Depth(t)].failed
  /\ stack'[t][Depth(t)].raisedBy # "reject"

RejectPassAfterNetworkFailure ==
  \E f \in RequestFrames :
    /\ f.client = "main" /\ f.failed /\ f.pc = "settled"
    /\ f.raisedBy = "fetch"
    /\ f.rejs = <<2, 3>>

\* The step of caller t ends an exchange of provider p in a raise: the post
\* was rejected or answered with a response that is not ok, or the body could
\* not be used.
ExchangeFails(t, p) ==
  /\ \/ AtAuth(t, "json") /\ Top(t).prov = p
     \/ /\ Depth(t) >= 2 /\ AtRequest(t, "settled")
        /\ stack[t][Depth(t) - 1].kind = "authenticate"
        /\ stack[t][Depth(t) - 1].prov = p
  /\ stack'[t] # <<>>
  /\ stack'[t][Len(stack'[t])].kind = "authenticate"
  /\ stack'[t][Len(stack'[t])].pc = "provRaised"

\* C38: an exchange that fails leaves the token of its provider as it was,
\* and a token once stored is never lost; the failing authenticate leaves
\* isAuthenticated false, and authenticateRequest still sets the stored
\* Bearer token on every request it is applied to, isAuthenticated or not.
FailedExchangeKeepsToken ==
  [][/\ \A t \in Tasks, p \in 1..Len(providers) :
          ExchangeFails(t, p) => providers'[p].token = providers[p].token
     /\ \A p \in 1..Len(providers) :
          providers[p].token # "none" =>
            /\ providers'[p].token = providers[p].token
            /\ ProviderHeaders(p)' = "Bearer jwt"
     /\ \A t \in Tasks :
          /\ (AtAuth(t, "provRaised") /\ stack'[t] # stack[t]) => ~isAuthenticated'
          /\ (/\ AuthenticateRequestStep(t)
              /\ authProvider # NoProvider
              /\ providers[authProvider].token # "none") =>
               stack'[t][Depth(t)].req.auth = <<"Bearer jwt">>]_vars

\* After a successful exchange and a 401 the pre-flight exchange of a request
\* failed: the request got the old token while isAuthenticated was false.
FailedExchangeKeepsTokenWitness ==
  \E f \in MainRequests :
    /\ f.pc = "fetch"
    /\ f.preflightFailed
    /\ f.flagAtInject = "unauthenticated" /\ ~isAuthenticated
    /\ f.req.auth = <<"Bearer jwt">>
    /\ ProviderHeaders(authProvider) = "Bearer jwt"

\* The events that set isAuthenticated, as steps of caller t: a call of
\* authenticate completes after its provider did (true) or in its catch
\* block, or returns at once for want of a provider or of a client (false);
\* a handler of notifyOnUnauthorizedResponse sees a 401 (false).
HandshakeSucceeded(t) == AtAuth(t, "provOk") /\ stack'[t] # stack[t]
HandshakeFailed(t) ==
  \/ AtAuth(t, "provRaised") /\ stack'[t] # stack[t]
  \/ /\ Len(stack'[t]) = Depth(t) + 1
     /\ stack'[t][Depth(t) + 1].kind = "authenticate"
     /\ stack'[t][Depth(t) + 1].pc = "settled"
UnauthorizedObserved(t) == NotifyStep(t)

\* C39: isAuthenticated is false before any event and, after every step, the
\* outcome of the event of that step if it has one (true for a handshake that
\* succeeded, false for one that failed and for a 401) and otherwise what it
\* was: it always is the outcome of the event completed last, whichever
\* request or handshake started first.
LastEventWins ==
  /\ ~isAuthenticated
  /\ [][IF \E t \in Tasks : HandshakeSucceeded(t) THEN isAuthenticated'
        ELSE IF \E t \in Tasks : HandshakeFailed(t) \/ UnauthorizedObserved(t)
          THEN ~isAuthenticated'
        ELSE isAuthenticated' = isAuthenticated]_vars

\* The handshake of a's request started first and that of b completed first,
\* in failure; a's has now succeeded and isAuthenticated is true.
LastEventWinsWitness ==
  /\ isAuthenticated
  /\ Depth("a") = 2 /\ AtAuth("a", "settled") /\ Top("a").how = "providerOk"
  /\ AtAuth("b", "settled") /\ Top("b").how = "providerRaised"

\* The other way round: b's handshake, started later, succeeded first, and
\* the failure of a's has left isAuthenticated false.
EarlierFailureOverwrites ==
  /\ ~isAuthenticated
  /\ Depth("a") = 2 /\ AtAuth("a", "settled") /\ Top("a").how = "providerRaised"
  /\ AtAuth("b", "settled") /\ Top("b").how = "providerOk"

\* A request() call of caller a has not settled towards the application.
RequestPending ==
  /\ Busy("a") /\ stack["a"][1].kind = "request"
  /\ stack["a"][1].pc # "settled"

\* The provider of a's pre-flight handshake waits for response.json().
ReadingBody == AtAuth("a", "json")

\* C40 (as stated): with handlers that return and timers that fire, every
\* request() call eventually resolves or rejects.
EveryRequestSettles == RequestPending ~> ~RequestPending

\* What holds: every request() call eventually resolves or rejects, or the
\* provider of its pre-flight handshake waits for the body of the handshake
\* response for ever. The network call of the request and that of the
\* handshake are each ended by their timer.
SettlesUnlessBodyStalls == (<>[]ReadingBody) \/ EveryRequestSettles

\* A handshake whose post resolved, with its timer cleared, and whose
\* provider waits for the body.
BodyAwaitedWithoutTimer ==
  /\ ReadingBody
  /\ RequestPending
  /\ \A f \in RequestFrames : f.timer # "armed"

====
